---- MODULE Spec2Model ----
(***************************************************************************)
(* Model of the timetable application's domain model (src/models.py) and   *)
(* of its persistence gateway (src/data_manager.py).                       *)
(*                                                                         *)
(* Python objects and JSON mappings are records; a mapping that may lack   *)
(* keys is a function whose DOMAIN is the set of keys it has.  Optional[T] *)
(* is a sequence of length 0 (None) or 1 (the value).  datetime.now() is a *)
(* logical clock: every call returns a value one greater than the last,    *)
(* and isoformat() of it is the number itself; the empty string '' given   *)
(* for a timestamp is EmptyDate.                                           *)
(***************************************************************************)
EXTENDS Integers, Sequences, FiniteSets, TLC

VARIABLES
    clock,              \* the time: datetime.now() returns the next value
    current_timetable,  \* the caller's Timetable object, Optional
    disk,               \* timetables.json
    subjects_file,      \* subjects.json
    settings_file,      \* settings.json
    export_file,        \* the file of export_to_json and import_from_json
    csv_file,           \* the file of export_to_csv: its rows, Optional
    backups,            \* the archives in backups/
    settings,           \* the application's settings mapping
    subject_objects,    \* the Subject objects, by reference
    subjects,           \* the application's list of subjects: references
    dialog,             \* the open dialog, Optional
    deleted,            \* names deleted in the Open dialog, not saved since
    procs,              \* the other processes saving into the data directory
    overlapped,         \* history: a process read while another was mid-save
    calls,              \* the number of gateway calls made under observation
    outcome,            \* history: the fault and the exceptions of the last call
    op,                 \* history: the last operation, its arguments, its result
    pre,                \* history: current_timetable, disk and clock before it
    prev                \* history: the operation before the last one

vars == <<clock, current_timetable, disk, subjects_file, settings_file,
          export_file, csv_file, backups, settings, subject_objects, subjects,
          dialog, deleted, procs, overlapped, calls, outcome, op, pre, prev>>

\* What the calls of the application itself leave alone.
gui == <<subject_objects, subjects, dialog, deleted>>
extras == <<gui, procs, overlapped>>

\* What the operations on timetables.json and on a Timetable leave alone.
others == <<subjects_file, settings_file, export_file, csv_file, backups,
            settings>>

\* ------------------------------------------------------------------ bounds

MaxClock == 5
MaxSessions == 3
MaxCalls == 2
MaxObjects == 3
MaxEdits == 2

\* ------------------------------------------------------------- vocabulary

EmptyDate == 0

None == <<>>
Some(x) == <<x>>

Names == {"Fall", "Spring"}
Semesters == {"2024F"}

Subject(name, code, credits, instructor, color) ==
    [name |-> name, code |-> code, credits |-> credits,
     instructor |-> instructor, color |-> color]

TimeSlot(start_time, end_time) ==
    [start_time |-> start_time, end_time |-> end_time]

ClassSession(subject, day, time_slot, room, session_type, notes) ==
    [subject |-> subject, day |-> day, time_slot |-> time_slot,
     room |-> room, session_type |-> session_type, notes |-> notes]

IntroCS == Subject("Intro CS", "CS101", 3, "", "#3b82f6")
Calculus == Subject("Calculus", "MA201", 4, "Dr. Rao", "#ef4444")

SessionA == ClassSession(IntroCS, "Monday", TimeSlot("09:00", "10:00"),
                         "101", "Lecture", "")
SessionB == ClassSession(Calculus, "monday", TimeSlot("10:00", "11:00"),
                         "", "Lab", "bring laptop")

\* The arguments given to get_sessions_by_day and get_sessions_by_subject.
DayArgs == {"Monday", "monday", "MONDAY", "friday", "Tuesday"}
CodeArgs == {"CS101", "cs101", "MA201", "PH301"}

SessionPool == {SessionA, SessionB}

\* ------------------------------------------------------------ src/models.py

\* post_init without the `if not self.created_date` test.
post_init_regenerate(name, semester, sessions, created_date, last_modified, clk) ==
    [obj |-> [name |-> name, semester |-> semester, sessions |-> sessions,
              created_date |-> clk + 1, last_modified |-> clk + 2],
     clock |-> clk + 2]

\* Timetable.__post_init__, run by the generated __init__ on the fields given.
\* Yields the object and the clock after the calls to datetime.now().
post_init(name, semester, sessions, created_date, last_modified, clk) ==
    LET c1 == IF created_date = EmptyDate THEN clk + 1 ELSE clk
        created == IF created_date = EmptyDate THEN c1 ELSE created_date
    IN  [obj |-> [name |-> name, semester |-> semester, sessions |-> sessions,
                  created_date |-> created, last_modified |-> c1 + 1],
         clock |-> c1 + 1]

\* list.index: the position of the first element equal to x, 0 when none is.
FirstIndex(seq, x) ==
    IF \E i \in 1..Len(seq) : seq[i] = x
    THEN CHOOSE i \in 1..Len(seq) :
            seq[i] = x /\ \A j \in 1..(i - 1) : seq[j] # x
    ELSE 0

\* ListRemove taking the last element equal to x instead of the first.
ListRemoveLast(seq, x) ==
    LET i == CHOOSE i \in 1..Len(seq) :
                seq[i] = x /\ \A j \in (i + 1)..Len(seq) : seq[j] # x
    IN  SubSeq(seq, 1, i - 1) \o SubSeq(seq, i + 1, Len(seq))

\* list.remove on a list that contains x.
ListRemove(seq, x) ==
    LET i == FirstIndex(seq, x)
    IN  SubSeq(seq, 1, i - 1) \o SubSeq(seq, i + 1, Len(seq))

\* Timetable.add_session; now is the value datetime.now() returns.
add_session(t, session, now) ==
    [t EXCEPT !.sessions = Append(t.sessions, session),
              !.last_modified = now]

\* Whether remove_session finds the session (session in self.sessions).
session_in(t, session) == FirstIndex(t.sessions, session) # 0

\* remove_session dropping every session equal to the one given.
remove_session_all(t, session, now) ==
    IF session_in(t, session)
    THEN [t EXCEPT !.sessions = SelectSeq(t.sessions,
                                          LAMBDA x : x # session),
                   !.last_modified = now]
    ELSE t

\* remove_session that does not refresh last_modified.
remove_session_stale(t, session, now) ==
    IF session_in(t, session)
    THEN [t EXCEPT !.sessions = ListRemove(t.sessions, session)]
    ELSE t

\* Timetable.remove_session; now is read only when the session is found.
remove_session(t, session, now) ==
    IF session_in(t, session)
    THEN [t EXCEPT !.sessions = ListRemove(t.sessions, session),
                   !.last_modified = now]
    ELSE t

\* str.lower() on the day names and subject codes the model uses; a string
\* without upper-case letters is its own lower-case form.
Lower(s) ==
    CASE s = "Monday" -> "monday"
      [] s = "MONDAY" -> "monday"
      [] s = "Friday" -> "friday"
      [] s = "Tuesday" -> "tuesday"
      [] s = "CS101" -> "cs101"
      [] s = "MA201" -> "ma201"
      [] OTHER -> s

\* get_sessions_by_day comparing the day fields as they are written.
get_sessions_by_day_exact(t, day) ==
    SelectSeq(t.sessions, LAMBDA session : session.day = day)

\* Timetable.get_sessions_by_day
get_sessions_by_day(t, day) ==
    SelectSeq(t.sessions, LAMBDA session : Lower(session.day) = Lower(day))

\* get_sessions_by_subject comparing the codes ignoring case.
get_sessions_by_subject_lower(t, subject_code) ==
    SelectSeq(t.sessions,
              LAMBDA session : Lower(session.subject.code) = Lower(subject_code))

\* Timetable.get_sessions_by_subject
get_sessions_by_subject(t, subject_code) ==
    SelectSeq(t.sessions, LAMBDA session : session.subject.code = subject_code)

\* dataclasses.asdict of a Subject / a TimeSlot.
asdict_subject(s) ==
    [name |-> s.name, code |-> s.code, credits |-> s.credits,
     instructor |-> s.instructor, color |-> s.color]

asdict_time_slot(ts) ==
    [start_time |-> ts.start_time, end_time |-> ts.end_time]

session_to_dict(session) ==
    [subject |-> asdict_subject(session.subject),
     day |-> session.day,
     time_slot |-> asdict_time_slot(session.time_slot),
     room |-> session.room,
     session_type |-> session.session_type,
     notes |-> session.notes]

\* Timetable.to_dict
to_dict(t) ==
    [name |-> t.name,
     semester |-> t.semester,
     created_date |-> t.created_date,
     last_modified |-> t.last_modified,
     sessions |-> [i \in 1..Len(t.sessions) |-> session_to_dict(t.sessions[i])]]

\* dict.get(key, default)
Get(d, key, default) == IF key \in DOMAIN d THEN d[key] ELSE default

SubjectKeys == {"name", "code", "credits", "instructor", "color"}
TimeSlotKeys == {"start_time", "end_time"}

\* Subject(**d) / TimeSlot(**d) raise TypeError on a missing required or an
\* unexpected keyword.
subject_raises(d) ==
    ~({"name", "code"} \subseteq DOMAIN d /\ DOMAIN d \subseteq SubjectKeys)

time_slot_raises(d) == DOMAIN d # TimeSlotKeys

session_raises(sd) ==
    \/ "subject" \notin DOMAIN sd
    \/ subject_raises(sd.subject)
    \/ "time_slot" \notin DOMAIN sd
    \/ time_slot_raises(sd.time_slot)
    \/ "day" \notin DOMAIN sd

\* Whether Timetable.from_dict raises (KeyError, TypeError) on the mapping.
from_dict_raises(data) ==
    \/ \E i \in 1..Len(Get(data, "sessions", <<>>)) :
          session_raises(data.sessions[i])
    \/ "name" \notin DOMAIN data
    \/ "semester" \notin DOMAIN data

\* session_from_dict that does not read the notes of the mapping.
session_from_dict_no_notes(sd) ==
    ClassSession(
        Subject(sd.subject.name, sd.subject.code,
                Get(sd.subject, "credits", 3),
                Get(sd.subject, "instructor", ""),
                Get(sd.subject, "color", "#3b82f6")),
        sd.day,
        TimeSlot(sd.time_slot.start_time, sd.time_slot.end_time),
        Get(sd, "room", ""),
        Get(sd, "session_type", "Lecture"),
        "")

\* session_from_dict that gives a session without session_type the empty
\* type.
session_from_dict_blank_type(sd) ==
    ClassSession(
        Subject(sd.subject.name, sd.subject.code,
                Get(sd.subject, "credits", 3),
                Get(sd.subject, "instructor", ""),
                Get(sd.subject, "color", "#3b82f6")),
        sd.day,
        TimeSlot(sd.time_slot.start_time, sd.time_slot.end_time),
        Get(sd, "room", ""),
        Get(sd, "session_type", ""),
        Get(sd, "notes", ""))

session_from_dict(sd) ==
    ClassSession(
        Subject(sd.subject.name, sd.subject.code,
                Get(sd.subject, "credits", 3),
                Get(sd.subject, "instructor", ""),
                Get(sd.subject, "color", "#3b82f6")),
        sd.day,
        TimeSlot(sd.time_slot.start_time, sd.time_slot.end_time),
        Get(sd, "room", ""),
        Get(sd, "session_type", "Lecture"),
        Get(sd, "notes", ""))

\* Timetable.from_dict on a mapping it does not raise on: the object and the
\* clock after construction.
from_dict(data, clk) ==
    LET ds == Get(data, "sessions", <<>>)
        sessions == [i \in 1..Len(ds) |-> session_from_dict(ds[i])]
    IN  post_init(data.name, data.semester, sessions,
                  Get(data, "created_date", EmptyDate),
                  Get(data, "last_modified", EmptyDate), clk)

\* ------------------------------------------------------ src/data_manager.py

\* timetables.json: whether the file exists, whether json.load can parse it,
\* and the list it holds when it can.  json.dump followed by json.load gives
\* back a list of mappings of strings and integers key by key, so the file is
\* kept as the list written to it.
File(entries) == [exists |-> TRUE, parsable |-> TRUE, entries |-> entries]
AbsentFile == [exists |-> FALSE, parsable |-> FALSE, entries |-> <<>>]
CorruptFile == [exists |-> TRUE, parsable |-> FALSE, entries |-> <<>>]

\* DataManager.load_all_timetables
load_all_timetables(d) ==
    IF d.exists
    THEN IF d.parsable THEN d.entries ELSE <<>>
    ELSE <<>>

\* existing['name'] raises KeyError on an entry without the key.
HasName(entry) == "name" \in DOMAIN entry

\* The index at which the loop `for i, existing in enumerate(timetables)` of
\* save_timetable and load_timetable stops on a match, 0 when it runs through.
MatchIndex(timetables, name) ==
    IF \E i \in 1..Len(timetables) :
          HasName(timetables[i]) /\ timetables[i].name = name
    THEN CHOOSE i \in 1..Len(timetables) :
            /\ HasName(timetables[i]) /\ timetables[i].name = name
            /\ \A j \in 1..(i - 1) :
                  HasName(timetables[j]) => timetables[j].name # name
    ELSE 0

\* Whether that loop raises KeyError before it stops: an entry without a name
\* comes before the first match.
ScanRaises(timetables, name) ==
    \E i \in 1..Len(timetables) :
        /\ ~HasName(timetables[i])
        /\ MatchIndex(timetables, name) \notin 1..i

\* SavedList that appends without looking for the name.
SavedListAppend(timetables, t) == Append(timetables, to_dict(t))

\* SavedList that drops the matching entry and appends the new one.
SavedListMoveLast(timetables, t) ==
    LET i == MatchIndex(timetables, t.name)
    IN  IF i # 0
        THEN Append(SubSeq(timetables, 1, i - 1)
                        \o SubSeq(timetables, i + 1, Len(timetables)),
                    to_dict(t))
        ELSE Append(timetables, to_dict(t))

\* The list save_timetable writes: the entry replaced at the match, or appended.
SavedList(timetables, t) ==
    LET i == MatchIndex(timetables, t.name)
    IN  IF i # 0
        THEN [timetables EXCEPT ![i] = to_dict(t)]
        ELSE Append(timetables, to_dict(t))

\* DataManager.save_timetable: the value returned and the file afterwards.
save_timetable(d, t) ==
    LET timetables == load_all_timetables(d)
    IN  IF ScanRaises(timetables, t.name)
        THEN [ok |-> FALSE, disk |-> d]
        ELSE [ok |-> TRUE, disk |-> File(SavedList(timetables, t))]

\* load_timetable that returns the first stored timetable, whatever its name.
load_timetable_first(d, name, clk) ==
    LET timetables == load_all_timetables(d)
    IN  IF timetables = <<>> \/ from_dict_raises(timetables[1])
        THEN [result |-> None, clock |-> clk]
        ELSE LET r == from_dict(timetables[1], clk)
             IN  [result |-> Some(r.obj), clock |-> r.clock]

\* load_timetable that answers a name it does not find with a new, empty
\* timetable of that name.
load_timetable_or_new(d, name, clk) ==
    LET timetables == load_all_timetables(d)
        i == MatchIndex(timetables, name)
    IN  IF ScanRaises(timetables, name) \/ i = 0
        THEN LET n == post_init(name, "", <<>>, EmptyDate, EmptyDate, clk)
             IN  [result |-> Some(n.obj), clock |-> n.clock]
        ELSE IF from_dict_raises(timetables[i])
        THEN [result |-> None, clock |-> clk]
        ELSE LET r == from_dict(timetables[i], clk)
             IN  [result |-> Some(r.obj), clock |-> r.clock]

\* DataManager.load_timetable: the Optional[Timetable] returned and the clock
\* afterwards.
load_timetable(d, name, clk) ==
    LET timetables == load_all_timetables(d)
        i == MatchIndex(timetables, name)
    IN  IF ScanRaises(timetables, name) \/ i = 0
        THEN [result |-> None, clock |-> clk]
        ELSE IF from_dict_raises(timetables[i])
        THEN [result |-> None, clock |-> clk]
        ELSE LET r == from_dict(timetables[i], clk)
             IN  [result |-> Some(r.obj), clock |-> r.clock]

\* FilterOut that drops only the first entry with the name.
RECURSIVE FilterOutFirst(_, _)
FilterOutFirst(timetables, name) ==
    IF timetables = <<>>
    THEN <<>>
    ELSE IF Head(timetables).name # name
    THEN <<Head(timetables)>> \o FilterOutFirst(Tail(timetables), name)
    ELSE Tail(timetables)

\* The list comprehension `[t for t in timetables if t['name'] != name]`.
RECURSIVE FilterOut(_, _)
FilterOut(timetables, name) ==
    IF timetables = <<>>
    THEN <<>>
    ELSE IF Head(timetables).name # name
    THEN <<Head(timetables)>> \o FilterOut(Tail(timetables), name)
    ELSE FilterOut(Tail(timetables), name)

\* DataManager.delete_timetable: the value returned and the file afterwards.
delete_timetable(d, name) ==
    LET timetables == load_all_timetables(d)
    IN  IF \E i \in 1..Len(timetables) : ~HasName(timetables[i])
        THEN [ok |-> FALSE, disk |-> d]
        ELSE [ok |-> TRUE, disk |-> File(FilterOut(timetables, name))]

\* ------------------------------------------- faults and the other files

\* What may go wrong in one call: nothing; the file cannot be opened for
\* reading; it cannot be opened for writing; the write fails after the file
\* was opened, and so truncated.
ReadFaults == {"none", "read"}
WriteFaults == {"none", "open", "write"}
Faults == ReadFaults \cup WriteFaults

\* The exception classes the model raises; all derive from Exception.
ExceptionClasses == {"OSError", "JSONDecodeError", "KeyError", "TypeError"}

\* A handler that catches OSError only.
HandledOSErrorOnly(exc) == exc = "OSError"

\* Whether the handler `except Exception as e` of an operation catches exc.
Handled(exc) == exc \in ExceptionClasses

\* Whether an exception raised in a try block leaves the operation.
Escapes(exc) == exc # "none" /\ ~Handled(exc)

\* A file holding one JSON value (settings.json, an exported timetable).
ValueFile(value) == [exists |-> TRUE, parsable |-> TRUE, content |-> Some(value)]
AbsentValueFile == [exists |-> FALSE, parsable |-> FALSE, content |-> None]
CorruptValueFile == [exists |-> TRUE, parsable |-> FALSE, content |-> None]

\* A write that leaves the file as it was whenever it fails.
WriteListAtomic(d, entries, fault) ==
    IF fault \in {"open", "write"} THEN d ELSE File(entries)

\* The file after `with open(path, 'w') ... json.dump(value, f)` under a fault:
\* open(path, 'w') truncates the file, so a write that fails after it leaves
\* less than the JSON text.
WriteList(d, entries, fault) ==
    CASE fault = "open" -> d
      [] fault = "write" -> CorruptFile
      [] OTHER -> File(entries)

WriteValue(d, value, fault) ==
    CASE fault = "open" -> d
      [] fault = "write" -> CorruptValueFile
      [] OTHER -> ValueFile(value)

\* The exception `with open(...)` and json.load raise on reading a file that
\* exists: OSError when it cannot be read, JSONDecodeError when it is no JSON.
ReadException(d, fault) ==
    IF fault = "read" THEN "OSError"
    ELSE IF ~d.parsable THEN "JSONDecodeError"
    ELSE "none"

\* DataManager.load_all_timetables with its handler: the list returned and the
\* exception its handler caught.
load_all_timetables_try(d, fault) ==
    IF ~d.exists
    THEN [value |-> <<>>, exc |-> "none"]
    ELSE IF ReadException(d, fault) # "none"
    THEN [value |-> <<>>, exc |-> ReadException(d, fault)]
    ELSE [value |-> load_all_timetables(d), exc |-> "none"]

\* The file as load_all_timetables lets its caller see it.
Seen(d, fault) == File(load_all_timetables_try(d, fault).value)

\* save_timetable that gives up, and leaves the file, when the collection
\* could not be read.
save_timetable_try_guarded(d, t, fault) ==
    LET r == save_timetable(Seen(d, fault), t)
        inner == load_all_timetables_try(d, fault).exc
    IN  IF inner # "none"
        THEN [ok |-> FALSE, disk |-> d, exc |-> inner, inner |-> inner]
        ELSE IF ~r.ok
        THEN [ok |-> FALSE, disk |-> d, exc |-> "KeyError", inner |-> inner]
        ELSE IF fault \in {"open", "write"}
        THEN [ok |-> FALSE, disk |-> WriteList(d, <<>>, fault),
              exc |-> "OSError", inner |-> inner]
        ELSE [ok |-> TRUE, disk |-> r.disk, exc |-> "none", inner |-> inner]

\* DataManager.save_timetable under a fault: the value returned, the file
\* afterwards, the exception raised in its try block and the one
\* load_all_timetables swallowed.
save_timetable_try(d, t, fault) ==
    LET r == save_timetable(Seen(d, fault), t)
        inner == load_all_timetables_try(d, fault).exc
    IN  IF ~r.ok
        THEN [ok |-> FALSE, disk |-> d, exc |-> "KeyError", inner |-> inner]
        ELSE IF fault \in {"open", "write"}
        THEN [ok |-> FALSE, disk |-> WriteList(d, <<>>, fault),
              exc |-> "OSError", inner |-> inner]
        ELSE [ok |-> TRUE, disk |-> r.disk, exc |-> "none", inner |-> inner]

\* DataManager.delete_timetable under a fault.
delete_timetable_try(d, name, fault) ==
    LET r == delete_timetable(Seen(d, fault), name)
        inner == load_all_timetables_try(d, fault).exc
    IN  IF ~r.ok
        THEN [ok |-> FALSE, disk |-> d, exc |-> "KeyError", inner |-> inner]
        ELSE IF fault \in {"open", "write"}
        THEN [ok |-> FALSE, disk |-> WriteList(d, <<>>, fault),
              exc |-> "OSError", inner |-> inner]
        ELSE [ok |-> TRUE, disk |-> r.disk, exc |-> "none", inner |-> inner]

\* The exception raised in load_timetable's try block.
load_timetable_exception(timetables, name) ==
    IF ScanRaises(timetables, name) THEN "KeyError"
    ELSE IF MatchIndex(timetables, name) = 0 THEN "none"
    ELSE LET data == timetables[MatchIndex(timetables, name)]
         IN  IF from_dict_raises(data)
             THEN IF "name" \in DOMAIN data /\ "semester" \in DOMAIN data
                  THEN "TypeError" ELSE "KeyError"
             ELSE "none"

\* DataManager.load_timetable under a fault.
load_timetable_try(d, name, clk, fault) ==
    LET r == load_timetable(Seen(d, fault), name, clk)
    IN  [result |-> r.result, clock |-> r.clock,
         exc |-> load_timetable_exception(Seen(d, fault).entries, name),
         inner |-> load_all_timetables_try(d, fault).exc]

\* get_timetable_names that lists the names in alphabetical order.
get_timetable_names_sorted(d, fault) ==
    LET timetables == load_all_timetables_try(d, fault).value
        names == {timetables[i].name : i \in 1..Len(timetables)}
    IN  IF \E i \in 1..Len(timetables) : ~HasName(timetables[i])
        THEN [value |-> <<>>, exc |-> "KeyError",
              inner |-> load_all_timetables_try(d, fault).exc]
        ELSE [value |-> IF names = {"Fall", "Spring"}
                        THEN <<"Fall", "Spring">>
                        ELSE [i \in 1..Len(timetables) |-> timetables[i].name],
              exc |-> "none", inner |-> load_all_timetables_try(d, fault).exc]

\* DataManager.get_timetable_names
get_timetable_names(d, fault) ==
    LET timetables == load_all_timetables_try(d, fault).value
    IN  IF \E i \in 1..Len(timetables) : ~HasName(timetables[i])
        THEN [value |-> <<>>, exc |-> "KeyError",
              inner |-> load_all_timetables_try(d, fault).exc]
        ELSE [value |-> [i \in 1..Len(timetables) |-> timetables[i].name],
              exc |-> "none", inner |-> load_all_timetables_try(d, fault).exc]

\* The mapping save_subjects writes for a Subject.
subject_to_dict(subject) ==
    [name |-> subject.name, code |-> subject.code, credits |-> subject.credits,
     instructor |-> subject.instructor, color |-> subject.color]

\* DataManager.save_subjects
save_subjects(d, list, fault) ==
    IF fault \in {"open", "write"}
    THEN [ok |-> FALSE, file |-> WriteList(d, <<>>, fault), exc |-> "OSError"]
    ELSE [ok |-> TRUE,
          file |-> File([i \in 1..Len(list) |-> subject_to_dict(list[i])]),
          exc |-> "none"]

\* Subject(**subject_data)
subject_from_dict(sd) ==
    Subject(sd.name, sd.code, Get(sd, "credits", 3),
            Get(sd, "instructor", ""), Get(sd, "color", "#3b82f6"))

\* load_subjects that keeps only the first stored subject.
load_subjects_first(d, fault) ==
    IF ~d.exists
    THEN [value |-> <<>>, exc |-> "none"]
    ELSE IF ReadException(d, fault) # "none"
    THEN [value |-> <<>>, exc |-> ReadException(d, fault)]
    ELSE IF \E i \in 1..Len(d.entries) : subject_raises(d.entries[i])
    THEN [value |-> <<>>, exc |-> "TypeError"]
    ELSE [value |-> [i \in 1..(IF d.entries = <<>> THEN 0 ELSE 1) |->
                        subject_from_dict(d.entries[i])],
          exc |-> "none"]

\* DataManager.load_subjects
load_subjects(d, fault) ==
    IF ~d.exists
    THEN [value |-> <<>>, exc |-> "none"]
    ELSE IF ReadException(d, fault) # "none"
    THEN [value |-> <<>>, exc |-> ReadException(d, fault)]
    ELSE IF \E i \in 1..Len(d.entries) : subject_raises(d.entries[i])
    THEN [value |-> <<>>, exc |-> "TypeError"]
    ELSE [value |-> [i \in 1..Len(d.entries) |-> subject_from_dict(d.entries[i])],
          exc |-> "none"]

\* DataManager.get_default_settings
get_default_settings ==
    [theme |-> "dark",
     appearance_mode |-> "dark",
     color_theme |-> "blue",
     window_geometry |-> "1200x800",
     auto_save |-> TRUE,
     show_weekend |-> FALSE,
     time_format |-> "24h",
     default_session_duration |-> 60,
     reminder_enabled |-> TRUE,
     reminder_minutes |-> 15]

\* DataManager.save_settings
save_settings(d, mapping, fault) ==
    IF fault \in {"open", "write"}
    THEN [ok |-> FALSE, file |-> WriteValue(d, mapping, fault), exc |-> "OSError"]
    ELSE [ok |-> TRUE, file |-> ValueFile(mapping), exc |-> "none"]

\* load_settings that fills the keys a stored mapping lacks from the defaults.
load_settings_merged(d, fault) ==
    IF ~d.exists
    THEN [value |-> get_default_settings, exc |-> "none"]
    ELSE IF ReadException(d, fault) # "none"
    THEN [value |-> get_default_settings, exc |-> ReadException(d, fault)]
    ELSE [value |-> [k \in DOMAIN d.content[1] \cup DOMAIN get_default_settings |->
                        IF k \in DOMAIN d.content[1] THEN d.content[1][k]
                        ELSE get_default_settings[k]],
          exc |-> "none"]

\* load_settings that answers a file it cannot read with the theme alone.
load_settings_no_defaults(d, fault) ==
    IF ~d.exists
    THEN [value |-> get_default_settings, exc |-> "none"]
    ELSE IF ReadException(d, fault) # "none"
    THEN [value |-> [theme |-> "dark"], exc |-> ReadException(d, fault)]
    ELSE [value |-> d.content[1], exc |-> "none"]

\* DataManager.load_settings
load_settings(d, fault) ==
    IF ~d.exists
    THEN [value |-> get_default_settings, exc |-> "none"]
    ELSE IF ReadException(d, fault) # "none"
    THEN [value |-> get_default_settings, exc |-> ReadException(d, fault)]
    ELSE [value |-> d.content[1], exc |-> "none"]

\* DataManager.export_to_json
export_to_json(d, t, fault) ==
    IF fault \in {"open", "write"}
    THEN [ok |-> FALSE, file |-> WriteValue(d, to_dict(t), fault), exc |-> "OSError"]
    ELSE [ok |-> TRUE, file |-> ValueFile(to_dict(t)), exc |-> "none"]

\* The exception raised in import_from_json's try block.
import_exception(d, fault) ==
    IF ~d.exists THEN "OSError"
    ELSE IF ReadException(d, fault) # "none" THEN ReadException(d, fault)
    ELSE IF from_dict_raises(d.content[1])
    THEN IF "name" \in DOMAIN d.content[1] /\ "semester" \in DOMAIN d.content[1]
         THEN "TypeError" ELSE "KeyError"
    ELSE "none"

\* import_from_json that builds the timetable without its sessions.
import_from_json_no_sessions(d, clk, fault) ==
    IF import_exception(d, fault) # "none"
    THEN [result |-> None, clock |-> clk, exc |-> import_exception(d, fault)]
    ELSE LET r == from_dict([k \in DOMAIN d.content[1] \ {"sessions"} |->
                                d.content[1][k]], clk)
         IN  [result |-> Some(r.obj), clock |-> r.clock, exc |-> "none"]

\* DataManager.import_from_json
import_from_json(d, clk, fault) ==
    IF import_exception(d, fault) # "none"
    THEN [result |-> None, clock |-> clk, exc |-> import_exception(d, fault)]
    ELSE LET r == from_dict(d.content[1], clk)
         IN  [result |-> Some(r.obj), clock |-> r.clock, exc |-> "none"]

\* str(time_slot) without the blanks around the dash.
time_slot_str_compact(ts) == ts.start_time \o "-" \o ts.end_time

\* str(session.time_slot)
time_slot_str(ts) == ts.start_time \o " - " \o ts.end_time

CsvHeader == <<"Day", "Time", "Subject", "Code", "Room", "Type",
               "Instructor", "Notes">>

\* The row export_to_csv writes for a session, in the order of the header.
csv_row(session) ==
    <<session.day, time_slot_str(session.time_slot), session.subject.name,
      session.subject.code, session.room, session.session_type,
      session.subject.instructor, session.notes>>

\* The rows export_to_csv writes: the header, then a row for each session.
csv_rows(t) ==
    <<CsvHeader>> \o [i \in 1..Len(t.sessions) |-> csv_row(t.sessions[i])]

\* DataManager.export_to_csv; written is the number of rows that reached the
\* file when the write fails.
export_to_csv(rows_before, t, fault, written) ==
    CASE fault = "open" ->
            [ok |-> FALSE, rows |-> rows_before, exc |-> "OSError"]
      [] fault = "write" ->
            [ok |-> FALSE, rows |-> Some(SubSeq(csv_rows(t), 1, written)),
             exc |-> "OSError"]
      [] OTHER ->
            [ok |-> TRUE, rows |-> Some(csv_rows(t)), exc |-> "none"]

\* DataManager.create_backup: the archive of the data directory, named after
\* the time; an archive of the same name replaces the earlier one, and a
\* write that fails leaves an archive that holds no data.
create_backup(archives, stamp, data, fault) ==
    CASE fault = "open" ->
            [ok |-> FALSE, backups |-> archives, exc |-> "OSError"]
      [] fault = "write" ->
            [ok |-> FALSE,
             backups |-> {a \in archives : a.stamp # stamp}
                            \cup {[stamp |-> stamp, data |-> None]},
             exc |-> "OSError"]
      [] OTHER ->
            [ok |-> TRUE,
             backups |-> {a \in archives : a.stamp # stamp}
                            \cup {[stamp |-> stamp, data |-> Some(data)]},
             exc |-> "none"]

\* ----------------------------------------------------------- initial files

StoredTimetable(name, semester, sessions) ==
    to_dict([name |-> name, semester |-> semester, sessions |-> sessions,
             created_date |-> 1, last_modified |-> 2])

StoredFall == StoredTimetable("Fall", "2024F", <<SessionA, SessionB>>)
StoredSpring == StoredTimetable("Spring", "2024F", <<SessionB>>)
StoredFallAgain == StoredTimetable("Fall", "2023F", <<>>)
NoNameEntry == [semester |-> "2024F", sessions |-> <<>>]
NoSemesterEntry == [name |-> "Spring", sessions |-> <<>>]
\* An entry holding only the keys from_dict requires.
MinimalEntry ==
    [name |-> "Spring", semester |-> "2024F",
     sessions |-> <<[subject |-> [name |-> "Calculus", code |-> "MA201"],
                     day |-> "Friday",
                     time_slot |-> asdict_time_slot(TimeSlot("10:00", "11:00"))]>>]

\* What timetables.json may hold when the application starts: nothing, text
\* that is no JSON, or a list written by earlier runs or by hand.
InitialFiles ==
    {AbsentFile, CorruptFile, File(<<>>),
     File(<<StoredFall, StoredSpring>>),
     File(<<StoredFallAgain, StoredSpring, StoredFall>>),
     File(<<StoredFall, NoNameEntry, StoredSpring>>),
     File(<<StoredFall, NoSemesterEntry>>),
     File(<<MinimalEntry>>)}

\* ----------------------------------------------------------------- actions

NoOp == [kind |-> "start", name |-> "", session |-> None, ok |-> TRUE,
         result |-> None]

Snapshot == [current_timetable |-> current_timetable, disk |-> disk,
             clock |-> clock, subjects_file |-> subjects_file,
             settings_file |-> settings_file, export_file |-> export_file]

\* No fault was injected and nothing was raised.
NoOutcome == [fault |-> "none", exc |-> "none", inner |-> "none",
              escaped |-> FALSE]

\* The history of a step: the operation, the state it started from, and the
\* operation before it (with the sessions list it started from, for an
\* add_session).
History(kind, name, session, ok, result) ==
    /\ op' = [kind |-> kind, name |-> name, session |-> session, ok |-> ok,
              result |-> result]
    /\ pre' = Snapshot
    /\ prev' = [kind |-> op.kind, name |-> op.name, session |-> op.session,
                ok |-> op.ok, result |-> op.result,
                sessions |-> IF op.kind = "add_session"
                             THEN pre.current_timetable[1].sessions
                             ELSE <<>>]

\* The history of a step that is no observed gateway call: it touches no
\* other file and no outcome is kept.
Record(kind, name, session, ok, result) ==
    /\ History(kind, name, session, ok, result)
    /\ outcome' = NoOutcome
    /\ UNCHANGED others
    /\ UNCHANGED calls
    /\ UNCHANGED extras

\* The processes that work on the data directory next to the application, and
\* a process that is in no save_timetable.
Procs == {1, 2}
Idle == [pc |-> "idle", timetables |-> <<>>, timetable |-> None, ok |-> FALSE]

\* An observed gateway call: the fault injected, the exception raised in the
\* operation's try block, the one raised in load_all_timetables when the
\* operation calls it, and whether either left the operation.
Call(fault, exc, inner) ==
    /\ calls < MaxCalls
    /\ calls' = calls + 1
    /\ UNCHANGED extras
    /\ outcome' = [fault |-> fault, exc |-> exc, inner |-> inner,
                   escaped |-> Escapes(exc) \/ Escapes(inner)]

\* The state of a run that starts with a data directory: the application
\* reads its settings, no timetable is open.
InitDir(dirs, clk) ==
    /\ clock = clk
    /\ current_timetable = None
    /\ \E dir \in dirs :
          /\ disk = dir.timetables
          /\ subjects_file = dir.subjects
          /\ settings_file = dir.settings
          /\ export_file = dir.export
    /\ csv_file = None
    /\ backups = {}
    /\ settings = load_settings(settings_file, "none").value
    /\ subject_objects = load_subjects(subjects_file, "none").value
    /\ subjects = [i \in 1..Len(subject_objects) |-> i]
    /\ dialog = None
    /\ deleted = {}
    /\ procs = [p \in Procs |-> Idle]
    /\ overlapped = FALSE
    /\ calls = 0
    /\ outcome = NoOutcome
    /\ op = NoOp
    /\ pre = Snapshot
    /\ prev = [kind |-> "start", name |-> "", session |-> None, ok |-> TRUE,
               result |-> None, sessions |-> <<>>]

\* A data directory that holds timetables.json at most.
InitWith(files, clk) ==
    InitDir({[timetables |-> f, subjects |-> AbsentFile,
              settings |-> AbsentValueFile, export |-> AbsentValueFile] :
                f \in files}, clk)

\* The stored timetables carry timestamps up to 2: the clock has reached 2.
Init == InitWith(InitialFiles, 2)

\* A first run: timetables.json is absent or holds the empty list.
InitFresh == InitWith({AbsentFile, File(<<>>)}, 0)

\* A caller builds Timetable(name, semester, [], '', ''), as the New Timetable
\* dialog does, and keeps it as the current timetable.
ConstructTimetable(name, semester) ==
    LET r == post_init(name, semester, <<>>, EmptyDate, EmptyDate, clock)
    IN  /\ r.clock <= MaxClock
        /\ current_timetable' = Some(r.obj)
        /\ clock' = r.clock
        /\ UNCHANGED disk
        /\ Record("construct", name, None, TRUE, None)

\* Timetable.add_session on the current timetable
AddSession(session) ==
    /\ current_timetable # None
    /\ Len(current_timetable[1].sessions) < MaxSessions
    /\ clock < MaxClock
    /\ current_timetable' =
          Some(add_session(current_timetable[1], session, clock + 1))
    /\ clock' = clock + 1
    /\ UNCHANGED disk
    /\ Record("add_session", "", Some(session), TRUE, None)

\* Timetable.remove_session on the current timetable
RemoveSession(session) ==
    /\ current_timetable # None
    /\ session_in(current_timetable[1], session) => clock < MaxClock
    /\ current_timetable' =
          Some(remove_session(current_timetable[1], session, clock + 1))
    /\ clock' = IF session_in(current_timetable[1], session)
                THEN clock + 1 ELSE clock
    /\ UNCHANGED disk
    /\ Record("remove_session", "", Some(session),
              session_in(current_timetable[1], session), None)

\* Timetable.from_dict(t.to_dict()) on the current timetable
RoundTrip ==
    /\ current_timetable # None
    /\ LET r == from_dict(to_dict(current_timetable[1]), clock)
       IN  /\ r.clock <= MaxClock
           /\ current_timetable' = Some(r.obj)
           /\ clock' = r.clock
           /\ UNCHANGED disk
           /\ Record("round_trip", "", None, TRUE, Some(r.obj))

\* DataManager.save_timetable on the current timetable, under a fault
SaveTimetableUnder(fault) ==
    /\ current_timetable # None
    /\ LET r == save_timetable_try(disk, current_timetable[1], fault)
       IN  /\ disk' = r.disk
           /\ Call(fault, r.exc, r.inner)
           /\ UNCHANGED <<clock, current_timetable>>
           /\ UNCHANGED others
           /\ History("save_timetable", current_timetable[1].name, None,
                      r.ok, None)

\* DataManager.load_timetable under a fault; the caller keeps a timetable
\* that was loaded
LoadTimetableUnder(name, fault) ==
    LET r == load_timetable_try(disk, name, clock, fault)
    IN  /\ r.clock <= MaxClock
        /\ current_timetable' =
              IF r.result # None THEN r.result ELSE current_timetable
        /\ clock' = r.clock
        /\ Call(fault, r.exc, r.inner)
        /\ UNCHANGED disk
        /\ UNCHANGED others
        /\ History("load_timetable", name, None, r.result # None, r.result)

\* DataManager.delete_timetable under a fault
DeleteTimetableUnder(name, fault) ==
    LET r == delete_timetable_try(disk, name, fault)
    IN  /\ disk' = r.disk
        /\ Call(fault, r.exc, r.inner)
        /\ UNCHANGED <<clock, current_timetable>>
        /\ UNCHANGED others
        /\ History("delete_timetable", name, None, r.ok, None)

\* DataManager.save_timetable on the current timetable
SaveTimetable ==
    /\ current_timetable # None
    /\ LET r == save_timetable(disk, current_timetable[1])
       IN  /\ disk' = r.disk
           /\ UNCHANGED <<clock, current_timetable>>
           /\ Record("save_timetable", current_timetable[1].name, None,
                     r.ok, None)

\* DataManager.load_timetable; the caller keeps a timetable that was loaded
LoadTimetable(name) ==
    LET r == load_timetable(disk, name, clock)
    IN  /\ r.clock <= MaxClock
        /\ current_timetable' =
              IF r.result # None THEN r.result ELSE current_timetable
        /\ clock' = r.clock
        /\ UNCHANGED disk
        /\ Record("load_timetable", name, None, r.result # None, r.result)

\* DataManager.delete_timetable
DeleteTimetable(name) ==
    LET r == delete_timetable(disk, name)
    IN  /\ disk' = r.disk
        /\ UNCHANGED <<clock, current_timetable>>
        /\ Record("delete_timetable", name, None, r.ok, None)

\* Time passes between two operations.
Tick ==
    /\ clock < MaxClock
    /\ clock' = clock + 1
    /\ UNCHANGED <<current_timetable, disk>>
    /\ Record("tick", "", None, TRUE, None)

\* Timetable.get_sessions_by_day on the current timetable
GetSessionsByDay(day) ==
    /\ current_timetable # None
    /\ UNCHANGED <<clock, current_timetable, disk>>
    /\ Record("get_sessions_by_day", day, None, TRUE,
              Some(get_sessions_by_day(current_timetable[1], day)))

\* Timetable.get_sessions_by_subject on the current timetable
GetSessionsBySubject(subject_code) ==
    /\ current_timetable # None
    /\ UNCHANGED <<clock, current_timetable, disk>>
    /\ Record("get_sessions_by_subject", subject_code, None, TRUE,
              Some(get_sessions_by_subject(current_timetable[1], subject_code)))

Next ==
    \/ Tick
    \/ \E name \in Names, semester \in Semesters : ConstructTimetable(name, semester)
    \/ \E session \in SessionPool : AddSession(session)
    \/ \E session \in SessionPool : RemoveSession(session)
    \/ RoundTrip
    \/ SaveTimetable
    \/ \E name \in Names : LoadTimetable(name)
    \/ \E name \in Names : DeleteTimetable(name)

Spec == Init /\ [][Next]_vars

SpecFresh == InitFresh /\ [][Next]_vars

\* The operations on the timetable in memory, with the two queries.
NextQuery ==
    \/ \E name \in Names, semester \in Semesters : ConstructTimetable(name, semester)
    \/ \E name \in Names : LoadTimetable(name)
    \/ \E session \in SessionPool : AddSession(session)
    \/ \E session \in SessionPool : RemoveSession(session)
    \/ \E day \in DayArgs : GetSessionsByDay(day)
    \/ \E subject_code \in CodeArgs : GetSessionsBySubject(subject_code)

SpecQuery == Init /\ [][NextQuery]_vars

\* ------------------------------------------------ the gateway under faults

\* DataManager.load_all_timetables
LoadAllTimetables(fault) ==
    LET r == load_all_timetables_try(disk, fault)
    IN  /\ Call(fault, r.exc, "none")
        /\ UNCHANGED <<clock, current_timetable, disk>>
        /\ UNCHANGED others
        /\ History("load_all_timetables", "", None, r.exc = "none",
                   Some(r.value))

\* DataManager.get_timetable_names
GetTimetableNames(fault) ==
    LET r == get_timetable_names(disk, fault)
    IN  /\ Call(fault, r.exc, r.inner)
        /\ UNCHANGED <<clock, current_timetable, disk>>
        /\ UNCHANGED others
        /\ History("get_timetable_names", "", None, r.exc = "none",
                   Some(r.value))

\* DataManager.export_to_json of the current timetable
ExportToJson(fault) ==
    /\ current_timetable # None
    /\ LET r == export_to_json(export_file, current_timetable[1], fault)
       IN  /\ export_file' = r.file
           /\ Call(fault, r.exc, "none")
           /\ UNCHANGED <<clock, current_timetable, disk, subjects_file,
                          settings_file, csv_file, backups, settings>>
           /\ History("export_to_json", current_timetable[1].name, None,
                      r.ok, None)

\* DataManager.import_from_json; the caller keeps a timetable that was
\* imported, as import_json does
ImportFromJson(fault) ==
    LET r == import_from_json(export_file, clock, fault)
    IN  /\ r.clock <= MaxClock
        /\ current_timetable' =
              IF r.result # None THEN r.result ELSE current_timetable
        /\ clock' = r.clock
        /\ Call(fault, r.exc, "none")
        /\ UNCHANGED <<disk, subjects_file, settings_file, export_file,
                       csv_file, backups, settings>>
        /\ History("import_from_json", "", None, r.result # None, r.result)

\* The window geometries root.geometry() returns.
Geometries == {"1200x800", "800x600"}

\* on_closing that saves the current timetable whatever auto_save says.
auto_save_always(mapping, current) == current # None

\* The condition of on_closing under which the current timetable is saved.
auto_save_due(mapping, current) ==
    Get(mapping, "auto_save", TRUE) /\ current # None

\* TimetableApp.on_closing: the settings are saved with the geometry of the
\* window, the current timetable is saved when auto_save is on, and the
\* window is destroyed: no timetable is open any more.
OnClosing(geometry, settings_fault, fault) ==
    LET closing == [k \in DOMAIN settings \cup {"window_geometry"} |->
                       IF k = "window_geometry" THEN geometry ELSE settings[k]]
        s == save_settings(settings_file, closing, settings_fault)
        auto == auto_save_due(closing, current_timetable)
        r == IF auto
             THEN save_timetable_try(disk, current_timetable[1], fault)
             ELSE [ok |-> TRUE, disk |-> disk, exc |-> "none", inner |-> "none"]
    IN  /\ settings' = closing
        /\ settings_file' = s.file
        /\ disk' = r.disk
        /\ current_timetable' = None
        /\ Call(IF auto THEN fault ELSE settings_fault,
                IF s.exc # "none" THEN s.exc ELSE r.exc, r.inner)
        /\ UNCHANGED <<clock, subjects_file, export_file, csv_file, backups>>
        /\ History("on_closing",
                   IF auto THEN current_timetable[1].name ELSE "", None,
                   auto, None)

\* DataManager.save_subjects
SaveSubjects(list, fault) ==
    LET r == save_subjects(subjects_file, list, fault)
    IN  /\ subjects_file' = r.file
        /\ Call(fault, r.exc, "none")
        /\ UNCHANGED <<clock, current_timetable, disk, settings_file,
                       export_file, csv_file, backups, settings>>
        /\ History("save_subjects", "", None, r.ok, Some(list))

\* DataManager.load_subjects
LoadSubjects(fault) ==
    LET r == load_subjects(subjects_file, fault)
    IN  /\ Call(fault, r.exc, "none")
        /\ UNCHANGED <<clock, current_timetable, disk, subjects_file,
                       settings_file, export_file, csv_file, backups, settings>>
        /\ History("load_subjects", "", None, r.exc = "none", Some(r.value))

\* DataManager.save_settings
SaveSettings(mapping, fault) ==
    LET r == save_settings(settings_file, mapping, fault)
    IN  /\ settings_file' = r.file
        /\ Call(fault, r.exc, "none")
        /\ UNCHANGED <<clock, current_timetable, disk, subjects_file,
                       export_file, csv_file, backups, settings>>
        /\ History("save_settings", "", None, r.ok, Some(mapping))

\* DataManager.load_settings; the application keeps the mapping returned
LoadSettings(fault) ==
    LET r == load_settings(settings_file, fault)
    IN  /\ settings' = r.value
        /\ Call(fault, r.exc, "none")
        /\ UNCHANGED <<clock, current_timetable, disk, subjects_file,
                       settings_file, export_file, csv_file, backups>>
        /\ History("load_settings", "", None, r.exc = "none", Some(r.value))

\* DataManager.export_to_csv of the current timetable; a write that fails
\* leaves the rows written before it
ExportToCsv(fault) ==
    /\ current_timetable # None
    /\ \E written \in 0..Len(current_timetable[1].sessions) :
          LET r == export_to_csv(csv_file, current_timetable[1], fault, written)
          IN  /\ csv_file' = r.rows
              /\ Call(fault, r.exc, "none")
              /\ UNCHANGED <<clock, current_timetable, disk, subjects_file,
                             settings_file, export_file, backups, settings>>
              /\ History("export_to_csv", current_timetable[1].name, None,
                         r.ok, None)

\* DataManager.create_backup of the data directory
CreateBackup(fault) ==
    LET data == [timetables |-> disk, subjects |-> subjects_file,
                 settings |-> settings_file]
        r == create_backup(backups, clock, data, fault)
    IN  /\ backups' = r.backups
        /\ Call(fault, r.exc, "none")
        /\ UNCHANGED <<clock, current_timetable, disk, subjects_file,
                       settings_file, export_file, csv_file, settings>>
        /\ History("create_backup", "", None, r.ok, None)

\* The lists of subjects a caller saves.
SubjectLists ==
    {<<>>, <<IntroCS>>, <<IntroCS, Calculus>>, <<Calculus, IntroCS>>,
     <<IntroCS, IntroCS>>}

\* A stored subject without its optional keys, and one without its code.
MinimalSubject == [name |-> "Physics", code |-> "PH301"]
NoCodeSubject == [name |-> "Physics", credits |-> 4]

\* Settings mappings: the defaults, the defaults with two values changed, and
\* a mapping with one recognised key and one key of its own.
NoAutoSave ==
    [get_default_settings EXCEPT !.auto_save = FALSE, !.theme = "light"]
OwnKeys == [theme |-> "light", my_key |-> 7]
SettingsPool == {get_default_settings, NoAutoSave, OwnKeys}

\* The data directories and import files a run may start with: nothing
\* there; nothing parsable; valid files; files with an entry that lacks a
\* required key; files whose entries lack the optional keys.
InitialDirs ==
    {[timetables |-> AbsentFile, subjects |-> AbsentFile,
      settings |-> AbsentValueFile, export |-> AbsentValueFile],
     [timetables |-> CorruptFile, subjects |-> CorruptFile,
      settings |-> CorruptValueFile, export |-> CorruptValueFile],
     [timetables |-> File(<<StoredFallAgain, StoredSpring, StoredFall>>),
      subjects |-> File(<<subject_to_dict(Calculus)>>),
      settings |-> ValueFile(NoAutoSave), export |-> ValueFile(StoredSpring)],
     [timetables |-> File(<<StoredFall, NoNameEntry, StoredSpring>>),
      subjects |-> File(<<subject_to_dict(IntroCS), NoCodeSubject>>),
      settings |-> ValueFile(OwnKeys), export |-> ValueFile(NoNameEntry)],
     [timetables |-> File(<<StoredFall, NoSemesterEntry>>),
      subjects |-> File(<<>>),
      settings |-> ValueFile(get_default_settings),
      export |-> ValueFile(MinimalEntry)],
     [timetables |-> File(<<MinimalEntry>>),
      subjects |-> File(<<subject_to_dict(Calculus), MinimalSubject>>),
      settings |-> AbsentValueFile, export |-> ValueFile(NoSemesterEntry)]}

InitGateway == InitDir(InitialDirs, 2)

\* Every operation of the gateway, under every fault.
NextFaults ==
    \/ ConstructTimetable("Fall", "2024F")
    \/ \E fault \in Faults : SaveTimetableUnder(fault)
    \/ \E name \in Names, fault \in ReadFaults : LoadTimetableUnder(name, fault)
    \/ \E fault \in Faults : DeleteTimetableUnder("Fall", fault)
    \/ \E fault \in ReadFaults : LoadAllTimetables(fault)
    \/ \E fault \in ReadFaults : GetTimetableNames(fault)
    \/ \E fault \in WriteFaults : SaveSubjects(<<IntroCS, Calculus>>, fault)
    \/ \E fault \in ReadFaults : LoadSubjects(fault)
    \/ \E fault \in WriteFaults : SaveSettings(NoAutoSave, fault)
    \/ \E fault \in ReadFaults : LoadSettings(fault)
    \/ \E fault \in WriteFaults : ExportToJson(fault)
    \/ \E fault \in ReadFaults : ImportFromJson(fault)
    \/ \E fault \in WriteFaults : ExportToCsv(fault)
    \/ \E fault \in WriteFaults : CreateBackup(fault)

SpecFaults == InitGateway /\ [][NextFaults]_vars

\* The timetable store with the timetable in memory and the exit of the
\* application.
NextStore ==
    \/ \E name \in Names, semester \in Semesters : ConstructTimetable(name, semester)
    \/ \E session \in SessionPool : AddSession(session)
    \/ \E session \in SessionPool : RemoveSession(session)
    \/ SaveTimetableUnder("none")
    \/ \E name \in Names, fault \in ReadFaults : LoadTimetableUnder(name, fault)
    \/ \E name \in Names : DeleteTimetableUnder(name, "none")
    \/ \E fault \in ReadFaults : LoadAllTimetables(fault)
    \/ GetTimetableNames("none")
    \/ OnClosing("800x600", "none", "none")

SpecStore == InitGateway /\ [][NextStore]_vars

\* A timetable exported to a file and imported from it.
NextExchange ==
    \/ \E name \in Names, semester \in Semesters : ConstructTimetable(name, semester)
    \/ \E session \in SessionPool : AddSession(session)
    \/ \E name \in Names : LoadTimetable(name)
    \/ ExportToJson("none")
    \/ ImportFromJson("none")

SpecExchange == InitGateway /\ [][NextExchange]_vars

\* The subject catalogue and the settings, under faults.
NextCatalogue ==
    \/ \E list \in SubjectLists, fault \in WriteFaults :
          SaveSubjects(list, fault)
    \/ \E fault \in ReadFaults : LoadSubjects(fault)
    \/ \E mapping \in SettingsPool, fault \in WriteFaults :
          SaveSettings(mapping, fault)
    \/ \E fault \in ReadFaults : LoadSettings(fault)

SpecCatalogue == InitGateway /\ [][NextCatalogue]_vars

\* ------------------------------------- processes sharing the data directory

\* The timetables the processes save.
ProcessTimetables ==
    {post_init("Fall", "2024F", <<SessionA>>, EmptyDate, EmptyDate, 2).obj,
     post_init("Spring", "2024F", <<>>, EmptyDate, EmptyDate, 2).obj}

\* A save that reads the collection again when it writes.
collection_reread(timetables, d) == load_all_timetables(d)

\* The collection save_timetable changes and writes: the list it read at its
\* start.
collection_at_write(timetables, d) == timetables

\* save_timetable of a process up to `timetables = self.load_all_timetables()`
SaveRead(p, t) ==
    /\ procs[p].pc = "idle"
    /\ procs' = [procs EXCEPT ![p] =
                    [pc |-> "read", timetables |-> load_all_timetables(disk),
                     timetable |-> Some(t), ok |-> FALSE]]
    /\ overlapped' = (overlapped \/ \E q \in Procs \ {p} : procs[q].pc = "read")
    /\ outcome' = NoOutcome
    /\ UNCHANGED <<clock, current_timetable, disk, calls>>
    /\ UNCHANGED others
    /\ UNCHANGED gui
    /\ History("save_read", t.name, None, TRUE, None)

\* save_timetable of a process from its loop to its return: the list read is
\* changed and written over the file
SaveWrite(p) ==
    /\ procs[p].pc = "read"
    /\ LET r == save_timetable(
                   File(collection_at_write(procs[p].timetables, disk)),
                   procs[p].timetable[1])
       IN  /\ disk' = IF r.ok THEN r.disk ELSE disk
           /\ procs' = [procs EXCEPT ![p].pc = "done", ![p].ok = r.ok]
           /\ History("save_timetable", procs[p].timetable[1].name, None,
                      r.ok, None)
    /\ outcome' = NoOutcome
    /\ UNCHANGED <<clock, current_timetable, overlapped, calls>>
    /\ UNCHANGED others
    /\ UNCHANGED gui

\* Two processes, each saving one timetable, step by step.
NextRace ==
    \/ \E p \in Procs, t \in ProcessTimetables : SaveRead(p, t)
    \/ \E p \in Procs : SaveWrite(p)

SpecRace == InitGateway /\ [][NextRace]_vars

\* ------------------------------------------------------ src/timetable_gui.py

\* The history of a step of the window or of a dialog: no observed gateway
\* call, and the other processes do not move.
Gui(kind, name, session, ok, result) ==
    /\ History(kind, name, session, ok, result)
    /\ outcome' = NoOutcome
    /\ UNCHANGED <<calls, procs, overlapped>>

\* The history of a handler that opens a dialog: an observed call.
Opened(kind) ==
    /\ History(kind, "", None, TRUE, None)
    /\ outcome' = NoOutcome
    /\ calls < MaxCalls
    /\ calls' = calls + 1
    /\ UNCHANGED <<procs, overlapped>>

\* The Subject values behind a list of references.
SubjectValues(refs) == [i \in 1..Len(refs) |-> subject_objects[refs[i]]]

\* The row selected in a list box of n rows, 0 when none is.
Rows(n) == 0..n

\* The texts typed into the name, the code and the credits entry.
NameEntries == {"Physics", " ", ""}
CodeEntries == {"PH301", " MA201 ", ""}
CreditEntries == {"", "four"}

\* str.strip() on the texts that are typed.
strip(text) ==
    CASE text = " " -> ""
      [] text = " MA201 " -> "MA201"
      [] OTHER -> text

\* int(self.credits_entry.get() or "3"): None when it raises ValueError.
credits_of(text) ==
    CASE text = "" -> Some(3)
      [] OTHER -> None

\* ManageSubjectsDialog.__init__: the dialog's list is a copy of the list of
\* references, the Subject objects are the application's.  opened_with keeps
\* the values the application's subjects had when the dialog was opened, and
\* edits counts the changes made in the dialog.
ManageSubjectsDialogInit(list) ==
    [kind |-> "subjects", subjects |-> list, subjects_modified |-> FALSE,
     opened_with |-> SubjectValues(list), edits |-> 0]

SubjectsDialogOpen == dialog # None /\ dialog[1].kind = "subjects"

\* manage_subjects_dialog: the dialog is constructed, the constructor returns
\* with the window open, and subjects_modified is read at once.
ManageSubjectsDialog ==
    /\ dialog = None
    /\ LET d == ManageSubjectsDialogInit(subjects)
       IN  /\ dialog' = Some(d)
           /\ subjects' = IF d.subjects_modified THEN d.subjects ELSE subjects
    /\ UNCHANGED <<clock, current_timetable, disk, subject_objects, deleted>>
    /\ UNCHANGED others
    /\ Opened("manage_subjects_dialog")

\* ManageSubjectsDialog.add_subject
AddSubject(name_text, code_text, credits_text) ==
    /\ SubjectsDialogOpen
    /\ LET d == dialog[1]
           name == strip(name_text)
           code == strip(code_text)
           credits == credits_of(credits_text)
           refused ==
               \/ name = "" \/ code = ""
               \/ \E i \in 1..Len(d.subjects) :
                     subject_objects[d.subjects[i]].code = code
               \/ credits = None
       IN  IF refused
           THEN /\ UNCHANGED <<subject_objects, dialog>>
                /\ Gui("add_subject", "", None, FALSE, None)
           ELSE /\ Len(subject_objects) < MaxObjects
                /\ d.edits < MaxEdits
                /\ subject_objects' =
                      Append(subject_objects,
                             Subject(name, code, credits[1], "", "#3b82f6"))
                /\ dialog' = Some([d EXCEPT
                      !.subjects = Append(@, Len(subject_objects) + 1),
                      !.subjects_modified = TRUE,
                      !.edits = @ + 1])
                /\ Gui("add_subject", code, None, TRUE, None)
    /\ UNCHANGED <<clock, current_timetable, disk, subjects, deleted>>
    /\ UNCHANGED others

\* ManageSubjectsDialog.update_subject on the row selected, no row when i = 0
UpdateSubject(i, name_text, code_text, credits_text) ==
    /\ SubjectsDialogOpen
    /\ LET d == dialog[1]
           name == strip(name_text)
           code == strip(code_text)
           credits == credits_of(credits_text)
           refused ==
               \/ i = 0
               \/ name = "" \/ code = ""
               \/ credits = None
       IN  IF refused
           THEN /\ UNCHANGED <<subject_objects, dialog>>
                /\ Gui("update_subject", "", None, FALSE, None)
           ELSE /\ d.edits < MaxEdits
                /\ subject_objects' =
                      [subject_objects EXCEPT ![d.subjects[i]] =
                          Subject(name, code, credits[1], "", "#3b82f6")]
                /\ dialog' = Some([d EXCEPT !.subjects_modified = TRUE,
                                            !.edits = @ + 1])
                /\ Gui("update_subject", code, None, TRUE, None)
    /\ UNCHANGED <<clock, current_timetable, disk, subjects, deleted>>
    /\ UNCHANGED others

\* ManageSubjectsDialog.delete_subject on the row selected, with the answer
\* given to its question
DeleteSubject(i, yes) ==
    /\ SubjectsDialogOpen
    /\ LET d == dialog[1]
       IN  IF i = 0 \/ ~yes
           THEN /\ UNCHANGED dialog
                /\ Gui("delete_subject", "", None, FALSE, None)
           ELSE /\ d.edits < MaxEdits
                /\ dialog' = Some([d EXCEPT
                      !.subjects = [k \in 1..(Len(@) - 1) |->
                                       IF k < i THEN @[k] ELSE @[k + 1]],
                      !.subjects_modified = TRUE,
                      !.edits = @ + 1])
                /\ Gui("delete_subject", subject_objects[d.subjects[i]].code,
                       None, TRUE, None)
    /\ UNCHANGED <<clock, current_timetable, disk, subject_objects, subjects,
                   deleted>>
    /\ UNCHANGED others

\* ManageSubjectsDialog.save_changes
SaveChanges(fault) ==
    /\ SubjectsDialogOpen
    /\ LET d == dialog[1]
           r == save_subjects(subjects_file, SubjectValues(d.subjects), fault)
       IN  IF d.subjects_modified
           THEN /\ subjects_file' = r.file
                /\ dialog' = IF r.ok THEN None ELSE dialog
                /\ Gui("save_changes", "", None, r.ok,
                       Some(SubjectValues(d.subjects)))
           ELSE /\ fault = "none"
                /\ UNCHANGED subjects_file
                /\ dialog' = None
                /\ Gui("save_changes", "", None, FALSE, None)
    /\ UNCHANGED <<clock, current_timetable, disk, subject_objects, subjects,
                   deleted, settings_file, export_file, csv_file, backups,
                   settings>>

\* ManageSubjectsDialog.cancel, with the answer given to its question when
\* there are changes
CancelSubjects(yes) ==
    /\ SubjectsDialogOpen
    /\ LET d == dialog[1]
       IN  IF d.subjects_modified /\ ~yes
           THEN /\ UNCHANGED dialog
                /\ Gui("cancel", "", None, FALSE, Some(d.opened_with))
           ELSE /\ dialog' = None
                /\ Gui("cancel", "", None, TRUE, Some(d.opened_with))
    /\ UNCHANGED <<clock, current_timetable, disk, subject_objects, subjects,
                   deleted>>
    /\ UNCHANGED others

\* The subjects dialog, opened, used and closed.
NextSubjects ==
    \/ ManageSubjectsDialog
    \/ \E name \in NameEntries, code \in CodeEntries, credits \in CreditEntries :
          AddSubject(name, code, credits)
    \/ /\ SubjectsDialogOpen
       /\ \E i \in Rows(Len(dialog[1].subjects)), name \in NameEntries,
             code \in CodeEntries, credits \in CreditEntries :
             UpdateSubject(i, name, code, credits)
    \/ /\ SubjectsDialogOpen
       /\ \E i \in Rows(Len(dialog[1].subjects)), yes \in BOOLEAN :
             DeleteSubject(i, yes)
    \/ \E fault \in WriteFaults : SaveChanges(fault)
    \/ \E yes \in BOOLEAN : CancelSubjects(yes)

SpecSubjects == InitGateway /\ [][NextSubjects]_vars

\* TimetableApp.load_last_timetable, when the application starts
LoadLastTimetable ==
    /\ current_timetable = None
    /\ dialog = None
    /\ LET timetable_names == get_timetable_names(disk, "none").value
           r == load_timetable(disk, timetable_names[1], clock)
       IN  IF timetable_names = <<>>
           THEN /\ UNCHANGED <<clock, current_timetable>>
                /\ Gui("load_last_timetable", "", None, FALSE, None)
           ELSE /\ r.clock <= MaxClock
                /\ current_timetable' = r.result
                /\ clock' = r.clock
                /\ Gui("load_last_timetable", timetable_names[1], None,
                       r.result # None, r.result)
    /\ UNCHANGED <<disk, gui>>
    /\ UNCHANGED others

\* OpenTimetableDialog.__init__ and create_widgets: the list box holds the
\* names get_timetable_names returns.
OpenTimetableDialogInit(d) ==
    [kind |-> "open", result |-> None,
     timetable_listbox |-> get_timetable_names(d, "none").value]

OpenDialogOpen == dialog # None /\ dialog[1].kind = "open"

\* open_timetable: the dialog is constructed, the constructor returns with
\* the window open, and result is read at once.
OpenTimetable ==
    /\ dialog = None
    /\ LET d == OpenTimetableDialogInit(disk)
       IN  /\ dialog' = Some(d)
           /\ current_timetable' =
                 IF d.result # None THEN d.result ELSE current_timetable
    /\ UNCHANGED <<clock, disk, subject_objects, subjects, deleted>>
    /\ UNCHANGED others
    /\ Opened("open_timetable")

\* OpenTimetableDialog.open_selected on the row selected
OpenSelected(i) ==
    /\ OpenDialogOpen
    /\ LET d == dialog[1]
           r == load_timetable(disk, d.timetable_listbox[i], clock)
       IN  IF i = 0
           THEN /\ UNCHANGED <<clock, dialog>>
                /\ Gui("open_selected", "", None, FALSE, None)
           ELSE /\ r.clock <= MaxClock
                /\ clock' = r.clock
                /\ dialog' = IF r.result # None
                             THEN None
                             ELSE Some([d EXCEPT !.result = r.result])
                /\ Gui("open_selected", d.timetable_listbox[i], None,
                       r.result # None, r.result)
    /\ UNCHANGED <<current_timetable, disk, subject_objects, subjects, deleted>>
    /\ UNCHANGED others

\* OpenTimetableDialog.delete_selected on the row selected, with the answer
\* given to its question
DeleteSelected(i, yes, fault) ==
    /\ OpenDialogOpen
    /\ LET d == dialog[1]
           name == d.timetable_listbox[i]
           r == delete_timetable_try(disk, name, fault)
       IN  IF i = 0 \/ ~yes
           THEN /\ fault = "none"
                /\ UNCHANGED <<disk, dialog, deleted>>
                /\ Gui("delete_selected", "", None, FALSE, None)
           ELSE /\ disk' = r.disk
                /\ dialog' =
                      IF r.ok
                      THEN Some([d EXCEPT !.timetable_listbox =
                                    [k \in 1..(Len(@) - 1) |->
                                        IF k < i THEN @[k] ELSE @[k + 1]]])
                      ELSE dialog
                /\ deleted' = IF r.ok THEN deleted \cup {name} ELSE deleted
                /\ Gui("delete_selected", name, None, r.ok, None)
    /\ UNCHANGED <<clock, current_timetable, subject_objects, subjects>>
    /\ UNCHANGED others

\* OpenTimetableDialog.cancel
CancelOpen ==
    /\ OpenDialogOpen
    /\ dialog' = None
    /\ UNCHANGED <<clock, current_timetable, disk, subject_objects, subjects,
                   deleted>>
    /\ UNCHANGED others
    /\ Gui("cancel_open", "", None, TRUE, None)

\* TimetableApp.save_timetable: the user saves the current timetable
SaveTimetableMenu ==
    /\ dialog = None
    /\ IF current_timetable = None
       THEN /\ UNCHANGED <<disk, deleted>>
            /\ Gui("save_timetable", "", None, FALSE, None)
       ELSE LET r == save_timetable(disk, current_timetable[1])
            IN  /\ disk' = r.disk
                /\ deleted' = IF r.ok
                              THEN deleted \ {current_timetable[1].name}
                              ELSE deleted
                /\ Gui("save_timetable", current_timetable[1].name, None,
                       r.ok, None)
    /\ UNCHANGED <<clock, current_timetable, subject_objects, subjects, dialog>>
    /\ UNCHANGED others

\* TimetableApp.on_closing of the main window, no dialog holding the grab
CloseWindow(geometry) ==
    /\ dialog = None
    /\ OnClosing(geometry, "none", "none")

\* The application started, the Open dialog used, the window closed.
NextOpen ==
    \/ LoadLastTimetable
    \/ OpenTimetable
    \/ /\ OpenDialogOpen
       /\ \E i \in Rows(Len(dialog[1].timetable_listbox)) : OpenSelected(i)
    \/ /\ OpenDialogOpen
       /\ \E i \in Rows(Len(dialog[1].timetable_listbox)), yes \in BOOLEAN,
             fault \in {"none", "open"} :
             DeleteSelected(i, yes, fault)
    \/ CancelOpen
    \/ SaveTimetableMenu
    \/ CloseWindow("800x600")

SpecOpen == InitGateway /\ [][NextOpen]_vars

\* What the user has set in the Settings dialog when Apply is pressed: the
\* option menus, the switches and the texts of the two entries.
SettingsForms ==
    {[appearance_mode |-> "light", color_theme |-> "green",
      show_weekend |-> TRUE, time_format |-> "12h", auto_save |-> FALSE,
      duration_entry |-> "90", reminder_enabled |-> FALSE,
      reminder_entry |-> "30"],
     [appearance_mode |-> "dark", color_theme |-> "blue",
      show_weekend |-> FALSE, time_format |-> "24h", auto_save |-> TRUE,
      duration_entry |-> "60", reminder_enabled |-> TRUE,
      reminder_entry |-> "15"],
     [appearance_mode |-> "light", color_theme |-> "blue",
      show_weekend |-> TRUE, time_format |-> "24h", auto_save |-> TRUE,
      duration_entry |-> "an hour", reminder_enabled |-> TRUE,
      reminder_entry |-> "15"],
     [appearance_mode |-> "dark", color_theme |-> "green",
      show_weekend |-> FALSE, time_format |-> "12h", auto_save |-> TRUE,
      duration_entry |-> "90", reminder_enabled |-> FALSE,
      reminder_entry |-> ""]}

\* int() of the text of an entry: None when it raises ValueError.
int_of(text) ==
    CASE text = "15" -> Some(15)
      [] text = "30" -> Some(30)
      [] text = "60" -> Some(60)
      [] text = "90" -> Some(90)
      [] OTHER -> None

\* mapping[key] = value for each key of a record of new values
Assigned(mapping, values) ==
    [k \in DOMAIN mapping \cup DOMAIN values |->
        IF k \in DOMAIN values THEN values[k] ELSE mapping[k]]

\* SettingsDialog.__init__: the dialog's settings are a copy of the mapping
SettingsDialogInit(mapping) ==
    [kind |-> "settings", settings |-> mapping, settings_modified |-> FALSE]

SettingsDialogOpen == dialog # None /\ dialog[1].kind = "settings"

\* settings_dialog: the dialog is constructed, the constructor returns with
\* the window open, and settings_modified is read at once.
SettingsDialog ==
    /\ dialog = None
    /\ LET d == SettingsDialogInit(settings)
       IN  /\ dialog' = Some(d)
           /\ settings' = IF d.settings_modified THEN d.settings ELSE settings
    /\ UNCHANGED <<clock, current_timetable, disk, subject_objects, subjects,
                   deleted, subjects_file, settings_file, export_file,
                   csv_file, backups>>
    /\ Opened("settings_dialog")

\* The assignments of apply_settings up to the first int() that raises.
applied_settings(mapping, form) ==
    LET first == Assigned(mapping,
                    [appearance_mode |-> form.appearance_mode,
                     color_theme |-> form.color_theme,
                     show_weekend |-> form.show_weekend,
                     time_format |-> form.time_format,
                     auto_save |-> form.auto_save])
        second == Assigned(first,
                    [default_session_duration |-> int_of(form.duration_entry)[1],
                     reminder_enabled |-> form.reminder_enabled])
    IN  IF int_of(form.duration_entry) = None
        THEN [settings |-> first, raised |-> TRUE]
        ELSE IF int_of(form.reminder_entry) = None
        THEN [settings |-> second, raised |-> TRUE]
        ELSE [settings |-> Assigned(second,
                 [reminder_minutes |-> int_of(form.reminder_entry)[1]]),
              raised |-> FALSE]

\* SettingsDialog.apply_settings
ApplySettings(form, fault) ==
    /\ SettingsDialogOpen
    /\ LET d == dialog[1]
           a == applied_settings(d.settings, form)
           r == save_settings(settings_file, a.settings, fault)
       IN  IF a.raised
           THEN /\ fault = "none"
                /\ dialog' = Some([d EXCEPT !.settings = a.settings])
                /\ UNCHANGED settings_file
                /\ Gui("apply_settings", "", None, FALSE, None)
           ELSE /\ settings_file' = r.file
                /\ dialog' = IF r.ok
                             THEN None
                             ELSE Some([d EXCEPT !.settings = a.settings])
                /\ Gui("apply_settings", "", None, r.ok, Some(a.settings))
    /\ UNCHANGED <<clock, current_timetable, disk, subject_objects, subjects,
                   deleted, subjects_file, export_file, csv_file, backups,
                   settings>>

\* SettingsDialog.reset_defaults, with the answer given to its question: the
\* dialog is destroyed and a new one is made with the defaults
ResetDefaults(yes) ==
    /\ SettingsDialogOpen
    /\ dialog' = IF yes
                 THEN Some(SettingsDialogInit(get_default_settings))
                 ELSE dialog
    /\ UNCHANGED <<clock, current_timetable, disk, subject_objects, subjects,
                   deleted>>
    /\ UNCHANGED others
    /\ Gui("reset_defaults", "", None, yes, None)

\* SettingsDialog.cancel
CancelSettings ==
    /\ SettingsDialogOpen
    /\ dialog' = None
    /\ UNCHANGED <<clock, current_timetable, disk, subject_objects, subjects,
                   deleted>>
    /\ UNCHANGED others
    /\ Gui("cancel_settings", "", None, TRUE, None)

\* The Settings dialog used, the window closed.
NextSettings ==
    \/ SettingsDialog
    \/ \E form \in SettingsForms, fault \in WriteFaults :
          ApplySettings(form, fault)
    \/ \E yes \in BOOLEAN : ResetDefaults(yes)
    \/ CancelSettings
    \/ \E geometry \in Geometries : CloseWindow(geometry)

SpecSettings == InitGateway /\ [][NextSettings]_vars

\* The texts typed into the New Timetable dialog, and what is chosen in the
\* Add Class dialog besides the subject.
TimetableNameEntries == {"Fall", " Summer ", ""}
SemesterEntries == {"2024F", ""}
ClassForms ==
    {[day |-> "Monday", time |-> TimeSlot("09:00", "10:00"), room |-> "101",
      session_type |-> "Lecture", notes |-> ""],
     [day |-> "Friday", time |-> TimeSlot("10:00", "11:00"), room |-> "",
      session_type |-> "Lab", notes |-> "bring laptop"]}

\* str.strip() on the texts typed into the New Timetable dialog.
strip_entry(text) == IF text = " Summer " THEN "Summer" ELSE text

\* NewTimetableDialog.__init__
NewTimetableDialogInit == [kind |-> "new", result |-> None]

NewDialogOpen == dialog # None /\ dialog[1].kind = "new"

\* new_timetable: the dialog is constructed, the constructor returns with the
\* window open, and result is read at once.
NewTimetable ==
    /\ dialog = None
    /\ LET d == NewTimetableDialogInit
       IN  /\ dialog' = Some(d)
           /\ current_timetable' =
                 IF d.result # None THEN d.result ELSE current_timetable
    /\ UNCHANGED <<clock, disk, subject_objects, subjects, deleted>>
    /\ UNCHANGED others
    /\ Gui("new_timetable", "", None, TRUE, None)

\* NewTimetableDialog.create: the Timetable is made, kept in the dialog's
\* result, and the window is destroyed
Create(name_text, semester_text) ==
    /\ NewDialogOpen
    /\ LET name == strip_entry(name_text)
           semester == strip_entry(semester_text)
           existing_names == get_timetable_names(disk, "none").value
           r == post_init(name, semester, <<>>, EmptyDate, EmptyDate, clock)
       IN  IF \/ name = "" \/ semester = ""
              \/ \E k \in 1..Len(existing_names) : existing_names[k] = name
           THEN /\ UNCHANGED <<clock, dialog>>
                /\ Gui("create", name, None, FALSE, None)
           ELSE /\ r.clock <= MaxClock
                /\ clock' = r.clock
                /\ dialog' = None
                /\ Gui("create", name, None, TRUE, Some(r.obj))
    /\ UNCHANGED <<current_timetable, disk, subject_objects, subjects, deleted>>
    /\ UNCHANGED others

\* AddClassDialog.__init__: the dialog holds the application's list
AddClassDialogInit(list) ==
    [kind |-> "add_class", result |-> None, subjects |-> list]

AddClassDialogOpen == dialog # None /\ dialog[1].kind = "add_class"

\* add_class_dialog: without a timetable a warning; else the dialog is
\* constructed, the constructor returns with the window open, and result is
\* read at once.
AddClassDialog ==
    /\ dialog = None
    /\ IF current_timetable = None
       THEN /\ UNCHANGED <<clock, current_timetable, dialog>>
            /\ Gui("add_class_dialog", "", None, FALSE, None)
       ELSE LET d == AddClassDialogInit(subjects)
            IN  /\ dialog' = Some(d)
                /\ IF d.result # None
                   THEN /\ clock < MaxClock
                        /\ clock' = clock + 1
                        /\ current_timetable' =
                              Some(add_session(current_timetable[1],
                                               d.result[1], clock + 1))
                   ELSE UNCHANGED <<clock, current_timetable>>
                /\ Gui("add_class_dialog", "", None, TRUE, None)
    /\ UNCHANGED <<disk, subject_objects, subjects, deleted>>
    /\ UNCHANGED others

\* AddClassDialog.add_class with the subject chosen in the menu: the session
\* is made, kept in the dialog's result, and the window is destroyed
AddClass(i, form) ==
    /\ AddClassDialogOpen
    /\ LET d == dialog[1]
           code == subject_objects[d.subjects[i]].code
           selected == CHOOSE k \in 1..Len(d.subjects) :
                          /\ subject_objects[d.subjects[k]].code = code
                          /\ \A j \in 1..(k - 1) :
                                subject_objects[d.subjects[j]].code # code
           session == ClassSession(subject_objects[d.subjects[selected]],
                                   form.day, form.time, form.room,
                                   form.session_type, form.notes)
       IN  IF d.subjects = <<>>
           THEN /\ i = 0
                /\ UNCHANGED dialog
                /\ Gui("add_class", "", None, FALSE, None)
           ELSE /\ i > 0
                /\ dialog' = None
                /\ Gui("add_class", "", Some(session), TRUE, None)
    /\ UNCHANGED <<clock, current_timetable, disk, subject_objects, subjects,
                   deleted>>
    /\ UNCHANGED others

\* NewTimetableDialog.cancel and AddClassDialog.cancel
CancelDialog ==
    /\ NewDialogOpen \/ AddClassDialogOpen
    /\ dialog' = None
    /\ UNCHANGED <<clock, current_timetable, disk, subject_objects, subjects,
                   deleted>>
    /\ UNCHANGED others
    /\ Gui("cancel_dialog", "", None, TRUE, None)

\* The application started, the New Timetable and the Add Class dialog used.
NextDialogs ==
    \/ LoadLastTimetable
    \/ NewTimetable
    \/ \E name \in TimetableNameEntries, semester \in SemesterEntries :
          Create(name, semester)
    \/ AddClassDialog
    \/ /\ AddClassDialogOpen
       /\ \E i \in Rows(Len(dialog[1].subjects)), form \in ClassForms :
             AddClass(i, form)
    \/ CancelDialog

\* The event loop runs a callback that is due.
SpecDialogs ==
    InitGateway /\ [][NextDialogs]_vars /\ WF_vars(NextDialogs)

\* ---------------------------------------------------------------- properties

CurrentT == current_timetable[1]
PreT == pre.current_timetable[1]
PreStored == load_all_timetables(pre.disk)
Stored == load_all_timetables(disk)

SameSubject(a, b) ==
    /\ a.name = b.name /\ a.code = b.code /\ a.credits = b.credits
    /\ a.instructor = b.instructor /\ a.color = b.color

SameSession(a, b) ==
    /\ SameSubject(a.subject, b.subject)
    /\ a.day = b.day
    /\ a.time_slot.start_time = b.time_slot.start_time
    /\ a.time_slot.end_time = b.time_slot.end_time
    /\ a.room = b.room
    /\ a.session_type = b.session_type
    /\ a.notes = b.notes

SameContent(a, b) ==
    /\ a.name = b.name
    /\ a.semester = b.semester
    /\ Len(a.sessions) = Len(b.sessions)
    /\ \A i \in 1..Len(a.sessions) : SameSession(a.sessions[i], b.sessions[i])

Count(seq, x) == Cardinality({i \in 1..Len(seq) : seq[i] = x})

\* C1: the timetable rebuilt by from_dict(to_dict(t)) has the name, the
\* semester and, position by position and field by field, the sessions of t.
C1_RoundTripContent ==
    op.kind = "round_trip" =>
        /\ SameContent(op.result[1], PreT)
        /\ current_timetable = op.result

C1_Witness ==
    /\ op.kind = "round_trip"
    /\ Len(PreT.sessions) >= 2
    /\ \E i \in 1..Len(PreT.sessions) : PreT.sessions[i].notes # ""
    /\ \E i \in 1..Len(PreT.sessions) : PreT.sessions[i].subject.credits # 3

\* C2: the timetable rebuilt by from_dict(to_dict(t)), and the one
\* load_timetable returns for a stored entry, carry the created_date and the
\* last_modified of the original: neither is regenerated on reload.
C2_TimestampsPreserved ==
    /\ op.kind = "round_trip" =>
          /\ op.result[1].created_date = PreT.created_date
          /\ op.result[1].last_modified = PreT.last_modified
    /\ (op.kind = "load_timetable" /\ op.ok) =>
          LET entry == PreStored[MatchIndex(PreStored, op.name)]
          IN  /\ "created_date" \in DOMAIN entry =>
                    op.result[1].created_date = entry.created_date
              /\ "last_modified" \in DOMAIN entry =>
                    op.result[1].last_modified = entry.last_modified

\* C3: when save_timetable(t) has returned True, load_timetable(t.name) run
\* next returns a timetable, with the name, semester and sessions of t.
C3_SaveThenLoad ==
    /\ (op.kind = "save_timetable" /\ op.ok) =>
          LET r == load_timetable(disk, CurrentT.name, clock)
          IN  /\ r.result # None
              /\ SameContent(r.result[1], CurrentT)
    /\ (/\ op.kind = "load_timetable"
        /\ prev.kind = "save_timetable" /\ prev.ok /\ prev.name = op.name) =>
          /\ op.ok
          /\ SameContent(op.result[1], PreT)

C3_Witness ==
    /\ op.kind = "load_timetable" /\ op.ok
    /\ prev.kind = "save_timetable" /\ prev.ok /\ prev.name = op.name
    /\ SameContent(op.result[1], PreT)
    /\ PreT.sessions # <<>>
    /\ Len(Stored) = 3
    /\ Stored[3].name = op.name

\* C4: a save_timetable(t) that succeeds on a collection holding an entry
\* named t.name puts t.to_dict() at that entry's position, keeps the number
\* of entries and keeps every other entry where it was.
C4_OverwriteInPlace ==
    (/\ op.kind = "save_timetable" /\ op.ok
     /\ \E i \in 1..Len(PreStored) :
           HasName(PreStored[i]) /\ PreStored[i].name = op.name) =>
        /\ Len(Stored) = Len(PreStored)
        /\ \E i \in 1..Len(PreStored) :
              /\ HasName(PreStored[i]) /\ PreStored[i].name = op.name
              /\ Stored[i] = to_dict(CurrentT)
              /\ \A j \in 1..Len(PreStored) : j # i => Stored[j] = PreStored[j]

C4_Witness ==
    /\ op.kind = "save_timetable" /\ op.ok
    /\ Len(PreStored) >= 2
    /\ PreStored[1].name = op.name
    /\ PreStored[1] # to_dict(CurrentT)
    /\ Stored[1] = to_dict(CurrentT)

\* C5: from an absent or empty timetables.json, no two entries of the stored
\* collection ever have the same name.
C5_UniqueNames ==
    /\ \A i \in 1..Len(Stored) : HasName(Stored[i])
    /\ \A i, j \in 1..Len(Stored) :
          Stored[i].name = Stored[j].name => i = j

C5_Witness ==
    /\ op.kind = "save_timetable" /\ op.ok
    /\ Len(PreStored) = 2
    /\ Len(Stored) = 2
    /\ Stored # PreStored

\* C6: a delete_timetable(name) that succeeds leaves exactly the entries not
\* named name, unchanged and in their order; run again it returns True and
\* leaves the collection as it is, also when no entry had the name.
C6_DeleteAll ==
    (op.kind = "delete_timetable" /\ op.ok) =>
        /\ Stored = SelectSeq(PreStored, LAMBDA e : e.name # op.name)
        /\ disk.exists /\ disk.parsable
        /\ delete_timetable(disk, op.name) = [ok |-> TRUE, disk |-> disk]
        /\ (prev.kind = "delete_timetable" /\ prev.ok /\ prev.name = op.name)
              => disk = pre.disk

C6_Witness ==
    /\ op.kind = "delete_timetable" /\ op.ok
    /\ prev.kind = "start"
    /\ Len(PreStored) = 3
    /\ Len(Stored) = 1
    /\ Stored[1] = PreStored[2]

\* C7 as stated: add_session(s) followed by remove_session of an equal
\* session leaves the sessions list as it was before the two calls, whatever
\* the list held.
C7_AddRemoveRestores ==
    (/\ op.kind = "remove_session"
     /\ prev.kind = "add_session"
     /\ prev.session = op.session) =>
        CurrentT.sessions = prev.sessions

\* No session equal to s is followed, later in the list, by a different one.
NoneAfterFirst(seq, s) ==
    \A i, j \in 1..Len(seq) : (i < j /\ seq[i] = s) => seq[j] = s

\* C7 amended: the list is as before when no session equal to s was followed
\* by a different one (so for every list without s); in every case it holds
\* the same sessions the same number of times.
C7_AddRemoveRestoresUnlessReordered ==
    (/\ op.kind = "remove_session"
     /\ prev.kind = "add_session"
     /\ prev.session = op.session) =>
        /\ NoneAfterFirst(prev.sessions, op.session[1]) =>
              CurrentT.sessions = prev.sessions
        /\ Len(CurrentT.sessions) = Len(prev.sessions)
        /\ \A x \in {prev.sessions[i] : i \in 1..Len(prev.sessions)}
                    \cup {op.session[1]} :
              Count(CurrentT.sessions, x) = Count(prev.sessions, x)

C7_Witness ==
    /\ op.kind = "remove_session"
    /\ prev.kind = "add_session"
    /\ prev.session = op.session
    /\ Count(prev.sessions, op.session[1]) = 1
    /\ Len(prev.sessions) = 2
    /\ CurrentT.sessions = prev.sessions

\* The operations that construct a Timetable.
Constructed ==
    \/ op.kind = "construct"
    \/ op.kind = "round_trip"
    \/ op.kind = "load_timetable" /\ op.ok

\* C8 as stated: construction, add_session and every remove_session set
\* last_modified to the current clock value, later than it was.
C8_EveryCallRefreshes ==
    /\ Constructed => CurrentT.last_modified = clock
    /\ op.kind \in {"add_session", "remove_session"} =>
          /\ CurrentT.last_modified = clock
          /\ CurrentT.last_modified > PreT.last_modified

\* C8 amended: construction, add_session and a remove_session that finds the
\* session do so; a remove_session that does not find it leaves last_modified
\* as it was.
C8_RefreshUnlessNotFound ==
    /\ Constructed =>
          /\ CurrentT.last_modified = clock
          /\ clock > pre.clock
    /\ (op.kind = "round_trip") =>
          CurrentT.last_modified > PreT.last_modified
    /\ (op.kind = "add_session"
          \/ (op.kind = "remove_session"
                /\ Count(PreT.sessions, op.session[1]) > 0)) =>
          /\ CurrentT.last_modified = clock
          /\ CurrentT.last_modified > PreT.last_modified
    /\ (op.kind = "remove_session"
          /\ Count(PreT.sessions, op.session[1]) = 0) =>
          CurrentT.last_modified = PreT.last_modified

C8_Witness ==
    /\ op.kind = "remove_session"
    /\ Count(PreT.sessions, op.session[1]) = 0
    /\ PreT.sessions # <<>>
    /\ CurrentT.last_modified < clock

\* C9: a Timetable built without a created_date gets the current time, one
\* built with a created_date keeps it, and add_session, remove_session, a
\* to_dict/from_dict round trip and a save followed by a load leave it alone.
C9_CreatedOnce ==
    /\ op.kind = "construct" =>
          CurrentT.created_date = pre.clock + 1
    /\ op.kind \in {"add_session", "remove_session", "round_trip"} =>
          CurrentT.created_date = PreT.created_date
    /\ (op.kind = "load_timetable" /\ op.ok) =>
          LET given == Get(PreStored[MatchIndex(PreStored, op.name)],
                           "created_date", EmptyDate)
          IN  op.result[1].created_date =
                 IF given = EmptyDate THEN pre.clock + 1 ELSE given
    /\ (op.kind = "save_timetable" /\ op.ok) =>
          load_timetable(disk, CurrentT.name, clock).result[1].created_date
              = CurrentT.created_date

C9_Witness ==
    /\ op.kind = "load_timetable" /\ op.ok
    /\ op.result[1].created_date > 2
    /\ op.result[1].created_date + 1 < op.result[1].last_modified
    /\ prev.kind = "save_timetable" /\ prev.ok /\ prev.name = op.name

\* C10: remove_session(s) takes out the earliest session equal to s and
\* nothing else, keeping the order of the rest; when no session equals s the
\* list stays as it is.
C10_FirstMatchRemoved ==
    op.kind = "remove_session" =>
        LET before == PreT.sessions
            after == CurrentT.sessions
            s == op.session[1]
        IN  IF \E i \in 1..Len(before) : before[i] = s
            THEN \E i \in 1..Len(before) :
                    /\ before[i] = s
                    /\ \A j \in 1..(i - 1) : before[j] # s
                    /\ Len(after) = Len(before) - 1
                    /\ \A j \in 1..(i - 1) : after[j] = before[j]
                    /\ \A j \in i..Len(after) : after[j] = before[j + 1]
            ELSE after = before

C10_Witness ==
    /\ op.kind = "remove_session"
    /\ Count(PreT.sessions, op.session[1]) = 2
    /\ Len(PreT.sessions) = 3
    /\ PreT.sessions[3] = op.session[1]
    /\ CurrentT.sessions[2] = op.session[1]

\* The positions of seq whose element is in the set kept.
KeptAt(seq, kept) == {i \in 1..Len(seq) : seq[i] \in kept}

\* res holds exactly the elements of seq that are in kept, in their order.
IsSelection(res, seq, kept) ==
    LET K == KeptAt(seq, kept)
    IN  /\ Len(res) = Cardinality(K)
        /\ \A k \in 1..Len(res) :
              \E i \in K : /\ Cardinality({j \in K : j <= i}) = k
                           /\ res[k] = seq[i]

SessionsOf(t) == {t.sessions[i] : i \in 1..Len(t.sessions)}

\* C11: get_sessions_by_day(day) returns, in their order, exactly the sessions
\* whose day equals day up to letter case; arguments that differ only in case
\* give the same list.
C11_ByDayIgnoresCase ==
    op.kind = "get_sessions_by_day" =>
        /\ IsSelection(op.result[1], CurrentT.sessions,
                       {x \in SessionsOf(CurrentT) :
                           Lower(x.day) = Lower(op.name)})
        /\ \A day \in DayArgs :
              Lower(day) = Lower(op.name) =>
                 get_sessions_by_day(CurrentT, day) = op.result[1]

C11_Witness ==
    /\ op.kind = "get_sessions_by_day"
    /\ op.name = "MONDAY"
    /\ Len(CurrentT.sessions) = 2
    /\ CurrentT.sessions[1].day = "Friday"
    /\ op.result[1] = <<CurrentT.sessions[2]>>
    /\ op.result[1][1].day = "monday"

\* C12: get_sessions_by_subject(code) returns, in their order, exactly the
\* sessions whose subject code is code, letter for letter; neither query
\* changes the timetable's sessions or its last_modified.
C12_BySubjectExactNoEffect ==
    /\ op.kind = "get_sessions_by_subject" =>
          IsSelection(op.result[1], CurrentT.sessions,
                      {x \in SessionsOf(CurrentT) : x.subject.code = op.name})
    /\ op.kind \in {"get_sessions_by_subject", "get_sessions_by_day"} =>
          /\ CurrentT.sessions = PreT.sessions
          /\ CurrentT.last_modified = PreT.last_modified
          /\ current_timetable = pre.current_timetable

C12_Witness ==
    /\ op.kind = "get_sessions_by_subject"
    /\ op.name = "cs101"
    /\ op.result[1] = <<>>
    /\ \E i \in 1..Len(CurrentT.sessions) :
          CurrentT.sessions[i].subject.code = "CS101"
    /\ prev.kind = "get_sessions_by_subject" /\ prev.name = "CS101"

\* The operations that return a flag, an Optional Timetable, a list.
FlagOps ==
    {"save_timetable", "delete_timetable", "save_subjects", "save_settings",
     "export_to_json", "export_to_csv", "create_backup"}
OptionalOps == {"load_timetable", "import_from_json"}
ListOps == {"load_all_timetables", "get_timetable_names", "load_subjects"}

\* C13: no operation of the gateway lets an exception leave it, whatever the
\* fault (a file that is missing, unreadable, no JSON, an entry without a
\* required key, a write that fails); a call in which an exception was raised
\* returned its failure value: False, None, the empty list, the default
\* settings.
C13_NoFailureEscapes ==
    /\ ~outcome.escaped
    /\ outcome.exc # "none" =>
          /\ op.kind \in FlagOps => ~op.ok
          /\ op.kind \in OptionalOps => op.result = None
          /\ op.kind \in ListOps => op.result = Some(<<>>)
          /\ op.kind = "load_settings" => op.result = Some(get_default_settings)

C13_Witness ==
    /\ op.kind = "load_timetable"
    /\ outcome.exc = "KeyError"
    /\ op.result = None
    /\ prev.kind = "save_subjects"
    /\ ~prev.ok
    /\ subjects_file = CorruptFile

\* Whether the file can be read as JSON by the call.
Unparsable(d) == d.exists /\ (~d.parsable \/ outcome.fault = "read")

\* C14: load_all_timetables returns the empty list when timetables.json does
\* not exist or cannot be parsed; load_timetable(name) returns None when no
\* stored entry has the name or the file cannot be parsed; neither load
\* changes the file.
C14_LoadsFailEmpty ==
    /\ op.kind = "load_all_timetables" =>
          /\ ~pre.disk.exists \/ Unparsable(pre.disk) => op.result = Some(<<>>)
          /\ disk = pre.disk
    /\ op.kind = "load_timetable" =>
          /\ \/ Unparsable(pre.disk)
             \/ \A i \in 1..Len(PreStored) :
                   HasName(PreStored[i]) => PreStored[i].name # op.name
             => op.result = None
          /\ disk = pre.disk

C14_Witness ==
    /\ op.kind = "load_timetable"
    /\ op.name = "Fall"
    /\ op.result = None
    /\ Len(Stored) = 1
    /\ Stored[1].name = "Spring"
    /\ prev.kind = "load_all_timetables"
    /\ prev.result = Some(<<>>)
    /\ calls = 2

\* C15: load_settings returns the default mapping, its ten keys with their
\* default values, when settings.json is absent or cannot be read, and leaves
\* settings.json as it was: absent stays absent.
C15_DefaultSettings ==
    op.kind = "load_settings" =>
        /\ \/ ~pre.settings_file.exists
           \/ ~pre.settings_file.parsable
           \/ outcome.fault = "read"
           => /\ op.result = Some(get_default_settings)
              /\ DOMAIN op.result[1] =
                    {"theme", "appearance_mode", "color_theme",
                     "window_geometry", "auto_save", "show_weekend",
                     "time_format", "default_session_duration",
                     "reminder_enabled", "reminder_minutes"}
              /\ op.result[1].theme = "dark"
              /\ op.result[1].appearance_mode = "dark"
              /\ op.result[1].color_theme = "blue"
              /\ op.result[1].window_geometry = "1200x800"
              /\ op.result[1].auto_save = TRUE
              /\ op.result[1].show_weekend = FALSE
              /\ op.result[1].time_format = "24h"
              /\ op.result[1].default_session_duration = 60
              /\ op.result[1].reminder_enabled = TRUE
              /\ op.result[1].reminder_minutes = 15
        /\ settings_file = pre.settings_file

C15_Witness ==
    /\ op.kind = "load_settings"
    /\ outcome.exc = "JSONDecodeError"
    /\ op.result = Some(get_default_settings)
    /\ settings_file = CorruptValueFile
    /\ prev.kind = "save_settings"
    /\ prev.result = Some(OwnKeys)
    /\ ~prev.ok

\* The first stored entry with the name of the last operation.
FirstNamed == PreStored[MatchIndex(PreStored, op.name)]

\* C16: add_session and remove_session leave timetables.json as it is; the
\* file changes only in save_timetable, in delete_timetable, and in on_closing
\* when auto_save is on; a timetable loaded is the stored entry, whatever the
\* timetable in memory has become.
C16_UnsavedStaysInMemory ==
    /\ op.kind \in {"add_session", "remove_session", "construct"} =>
          disk = pre.disk
    /\ disk # pre.disk =>
          op.kind \in {"save_timetable", "delete_timetable", "on_closing"}
    /\ op.kind = "on_closing" /\ disk # pre.disk =>
          /\ Get(settings, "auto_save", TRUE)
          /\ pre.current_timetable # None
    /\ op.kind = "load_timetable" /\ op.result # None =>
          /\ op.result[1].name = FirstNamed.name
          /\ op.result[1].semester = FirstNamed.semester
          /\ Len(op.result[1].sessions) = Len(Get(FirstNamed, "sessions", <<>>))
          /\ \A i \in 1..Len(op.result[1].sessions) :
                /\ op.result[1].sessions[i].day = FirstNamed.sessions[i].day
                /\ op.result[1].sessions[i].subject.code =
                      FirstNamed.sessions[i].subject.code

C16_Witness ==
    /\ op.kind = "load_timetable"
    /\ prev.kind = "add_session"
    /\ pre.current_timetable # None
    /\ PreT.name = op.name
    /\ Len(PreT.sessions) = 3
    /\ Len(CurrentT.sessions) = 2
    /\ disk = pre.disk
    /\ calls = 2

\* The names of the stored entries, in the order of the file.
NamesOf(d) ==
    [i \in 1..Len(load_all_timetables(d)) |-> load_all_timetables(d)[i].name]

AllNamed(d) ==
    \A i \in 1..Len(load_all_timetables(d)) : HasName(load_all_timetables(d)[i])

\* The sequence without its elements equal to x.
Without(seq, x) == SelectSeq(seq, LAMBDA y : y # x)

InSeq(seq, x) == \E i \in 1..Len(seq) : seq[i] = x

\* C17: get_timetable_names returns the names of the stored entries in the
\* order of the file; a successful save of a name not stored appends it to
\* that order, a save of a stored name leaves the order as it is, and a
\* successful delete removes the name and keeps the others in their order.
C17_NamesInStorageOrder ==
    /\ op.kind = "get_timetable_names" /\ AllNamed(disk) =>
          op.result = Some(NamesOf(disk))
    /\ op.kind = "save_timetable" /\ op.ok /\ AllNamed(pre.disk) =>
          NamesOf(disk) = IF InSeq(NamesOf(pre.disk), op.name)
                          THEN NamesOf(pre.disk)
                          ELSE Append(NamesOf(pre.disk), op.name)
    /\ op.kind = "delete_timetable" /\ op.ok /\ AllNamed(pre.disk) =>
          NamesOf(disk) = Without(NamesOf(pre.disk), op.name)

C17_Witness ==
    /\ op.kind = "get_timetable_names"
    /\ op.result = Some(<<"Spring", "Fall">>)
    /\ prev.kind = "save_timetable"
    /\ prev.name = "Fall"
    /\ prev.ok
    /\ NamesOf(pre.disk) = <<"Spring", "Fall">>

\* Whether the mapping lacks a key Timetable.from_dict requires of it.
LacksRequired(data) == "name" \notin DOMAIN data \/ "semester" \notin DOMAIN data

\* The session mappings of the mapping a timetable was built from.
SessionMappings(data) == Get(data, "sessions", <<>>)

\* The sessions have the defaults where their mappings lack the key.
DefaultsFilled(t, data) ==
    /\ Len(t.sessions) = Len(SessionMappings(data))
    /\ \A i \in 1..Len(t.sessions) :
          /\ "room" \notin DOMAIN SessionMappings(data)[i] =>
                t.sessions[i].room = ""
          /\ "session_type" \notin DOMAIN SessionMappings(data)[i] =>
                t.sessions[i].session_type = "Lecture"
          /\ "notes" \notin DOMAIN SessionMappings(data)[i] =>
                t.sessions[i].notes = ""

\* C18: from_dict fails on a mapping without name or without semester, so
\* import_from_json of such a file and load_timetable of such an entry return
\* None; a timetable that is loaded or imported has room "", session_type
\* "Lecture" and notes "" in the sessions whose mappings lack the key.
C18_RequiredKeysAndDefaults ==
    /\ op.kind = "import_from_json" /\ pre.export_file.parsable =>
          /\ LacksRequired(pre.export_file.content[1]) =>
                /\ from_dict_raises(pre.export_file.content[1])
                /\ op.result = None
          /\ op.result # None =>
                DefaultsFilled(op.result[1], pre.export_file.content[1])
    /\ op.kind = "load_timetable" =>
          /\ \/ ScanRaises(PreStored, op.name)
             \/ /\ MatchIndex(PreStored, op.name) > 0
                /\ LacksRequired(FirstNamed)
             => op.result = None
          /\ op.result # None => DefaultsFilled(op.result[1], FirstNamed)

C18_Witness ==
    /\ op.kind = "import_from_json"
    /\ op.result # None
    /\ export_file = ValueFile(MinimalEntry)
    /\ CurrentT.sessions[1].room = ""
    /\ CurrentT.sessions[1].session_type = "Lecture"
    /\ CurrentT.sessions[1].notes = ""
    /\ prev.kind = "load_timetable"
    /\ prev.name = "Spring"
    /\ prev.result = None
    /\ Stored = <<StoredFall, NoSemesterEntry>>

\* C19: import_from_json of the file export_to_json(t, path) has written
\* returns a timetable with the name, the semester and, position by position
\* and field by field, the sessions of t; neither operation changes
\* timetables.json.
C19_ExportImport ==
    /\ op.kind = "import_from_json" /\ prev.kind = "export_to_json" /\ prev.ok =>
          /\ op.result # None
          /\ SameContent(op.result[1], PreT)
    /\ op.kind \in {"export_to_json", "import_from_json"} => disk = pre.disk

C19_Witness ==
    /\ op.kind = "import_from_json"
    /\ prev.kind = "export_to_json"
    /\ prev.ok
    /\ Len(CurrentT.sessions) = 3
    /\ CurrentT.name = "Fall"
    /\ Len(Stored) > 0
    /\ Stored[1].name = "Fall"
    /\ Len(Stored[1].sessions) = 2

\* C20: load_subjects after a save_subjects(L) that returned True returns L,
\* subject by subject and field by field, whatever subjects.json held before;
\* load_subjects returns the empty list when subjects.json is absent or
\* cannot be read.
C20_SubjectsOverwrite ==
    op.kind = "load_subjects" =>
        /\ prev.kind = "save_subjects" /\ prev.ok /\ outcome.fault = "none" =>
              /\ Len(op.result[1]) = Len(prev.result[1])
              /\ \A i \in 1..Len(op.result[1]) :
                    SameSubject(op.result[1][i], prev.result[1][i])
              /\ op.result = prev.result
        /\ \/ ~pre.subjects_file.exists
           \/ ~pre.subjects_file.parsable
           \/ outcome.fault = "read"
           => op.result = Some(<<>>)

C20_Witness ==
    /\ op.kind = "load_subjects"
    /\ op.result = Some(<<Calculus, IntroCS>>)
    /\ prev.kind = "save_subjects"
    /\ prev.ok
    /\ settings_file = ValueFile(OwnKeys)

\* C21: load_settings after a save_settings(m) that succeeded returns m: the
\* same keys, unrecognised ones included and none added from the defaults,
\* each with the value m gives it.
C21_SettingsRoundTrip ==
    op.kind = "load_settings" /\ prev.kind = "save_settings" /\ prev.ok
        /\ outcome.fault = "none" =>
            /\ DOMAIN op.result[1] = DOMAIN prev.result[1]
            /\ \A k \in DOMAIN op.result[1] : op.result[1][k] = prev.result[1][k]
            /\ op.result = prev.result

C21_Witness ==
    /\ op.kind = "load_settings"
    /\ op.result = Some(OwnKeys)
    /\ op.result[1].my_key = 7
    /\ "auto_save" \notin DOMAIN op.result[1]
    /\ prev.kind = "save_settings"
    /\ prev.ok
    /\ subjects_file = File(<<>>)

\* C22: a successful export_to_csv(t, path) leaves in the file the header row
\* Day, Time, Subject, Code, Room, Type, Instructor, Notes and after it one
\* row for each session of t, in the order of t.sessions: the day, the start
\* time, " - " and the end time, the subject's name and code, the room, the
\* type, the subject's instructor, the notes; with no sessions, the header
\* row alone.
C22_CsvRows ==
    op.kind = "export_to_csv" /\ op.ok =>
        /\ csv_file # None
        /\ Len(csv_file[1]) = Len(CurrentT.sessions) + 1
        /\ csv_file[1][1] = <<"Day", "Time", "Subject", "Code", "Room", "Type",
                             "Instructor", "Notes">>
        /\ \A i \in 1..Len(CurrentT.sessions) :
              csv_file[1][i + 1] =
                 <<CurrentT.sessions[i].day,
                   CurrentT.sessions[i].time_slot.start_time \o " - "
                      \o CurrentT.sessions[i].time_slot.end_time,
                   CurrentT.sessions[i].subject.name,
                   CurrentT.sessions[i].subject.code,
                   CurrentT.sessions[i].room,
                   CurrentT.sessions[i].session_type,
                   CurrentT.sessions[i].subject.instructor,
                   CurrentT.sessions[i].notes>>
        /\ CurrentT.sessions = <<>> => csv_file = Some(<<CsvHeader>>)

C22_Witness ==
    /\ op.kind = "export_to_csv"
    /\ op.ok
    /\ Len(csv_file[1]) = 3
    /\ csv_file[1][2] = <<"Monday", "09:00 - 10:00", "Intro CS", "CS101", "101",
                         "Lecture", "", "">>
    /\ csv_file[1][3][1] = "monday"
    /\ csv_file[1][3][7] = "Dr. Rao"

\* C23: save_timetable(t) on a timetables.json that exists and cannot be
\* parsed returns True and leaves a collection of the one entry t.to_dict();
\* the parse failure does not reach the caller.
C23_SaveDiscardsUnparsable ==
    op.kind = "save_timetable" /\ pre.disk.exists /\ ~pre.disk.parsable
        /\ outcome.fault = "none" =>
            /\ op.ok
            /\ disk = File(<<to_dict(CurrentT)>>)
            /\ Stored = <<to_dict(CurrentT)>>
            /\ outcome.exc = "none"
            /\ outcome.inner = "JSONDecodeError"

C23_Witness ==
    /\ op.kind = "save_timetable"
    /\ pre.disk = CorruptFile
    /\ op.ok
    /\ Stored = <<to_dict(CurrentT)>>
    /\ prev.kind = "construct"

\* C24: a save_timetable or delete_timetable whose write fails after the file
\* was opened returns False and leaves a file that cannot be parsed: every
\* load_timetable then returns None and load_all_timetables the empty list,
\* whatever was stored before.
C24_FailedWriteLosesCollection ==
    op.kind \in {"save_timetable", "delete_timetable"}
        /\ outcome.fault = "write" /\ outcome.exc = "OSError" =>
            /\ ~op.ok
            /\ disk.exists
            /\ ~disk.parsable
            /\ load_all_timetables(disk) = <<>>
            /\ \A name \in Names : load_timetable(disk, name, clock).result = None

C24_Witness ==
    /\ op.kind = "delete_timetable"
    /\ outcome.fault = "write"
    /\ ~op.ok
    /\ prev.kind = "save_timetable"
    /\ prev.ok
    /\ load_timetable(pre.disk, prev.name, clock).result # None
    /\ load_timetable(disk, prev.name, clock).result = None
    /\ load_all_timetables(disk) = <<>>
    /\ disk # pre.disk

\* Both processes have returned True from save_timetable, for different names.
BothSaved ==
    /\ \A p \in Procs : procs[p].pc = "done" /\ procs[p].ok
    /\ procs[1].timetable[1].name # procs[2].timetable[1].name

\* The timetable the process saved is an entry of the collection.
Kept(p) == InSeq(Stored, to_dict(procs[p].timetable[1]))

\* C25: when two save_timetable calls for different names have both returned
\* True, the collection holds both timetables if neither call read the file
\* while the other was between its read and its write; if one did, the
\* collection lacks one of the two.
C25_LostUpdateOnlyWhenInterleaved ==
    BothSaved =>
        /\ ~overlapped => \A p \in Procs : Kept(p)
        /\ overlapped => \E p \in Procs : ~Kept(p)

C25_Witness ==
    /\ BothSaved
    /\ overlapped
    /\ Kept(2)
    /\ ~Kept(1)
    /\ Len(Stored) = 1
    /\ op.kind = "save_timetable"
    /\ prev.kind = "save_timetable"


\* Pairwise distinct codes, and no empty name or code, in a list of Subject
\* values.
DistinctCodes(list) ==
    \A i, j \in 1..Len(list) : list[i].code = list[j].code => i = j

NamedAndCoded(list) ==
    \A i \in 1..Len(list) : list[i].name # "" /\ list[i].code # ""

\* C26: in the subjects dialog, opened on subjects with pairwise distinct
\* codes and no empty name or code, the codes of the dialog's subjects stay
\* pairwise distinct and no subject has an empty name or code, whatever
\* add_subject, update_subject and delete_subject did.
C26_CodesStayUnique ==
    (/\ SubjectsDialogOpen
     /\ DistinctCodes(dialog[1].opened_with)
     /\ NamedAndCoded(dialog[1].opened_with))
    => /\ DistinctCodes(SubjectValues(dialog[1].subjects))
       /\ NamedAndCoded(SubjectValues(dialog[1].subjects))


\* C27: the subjects dialog commits on confirm.  While it is open the
\* application's subjects, list and values, are those it was opened with;
\* add_subject, update_subject and delete_subject leave subjects.json as it
\* was; and after cancel closed the dialog the application's list and every
\* Subject value in it are as they were when the dialog was opened.
C27_CommitOnConfirm ==
    /\ SubjectsDialogOpen
          => SubjectValues(subjects) = dialog[1].opened_with
    /\ op.kind \in {"add_subject", "update_subject", "delete_subject"}
          => subjects_file = pre.subjects_file
    /\ (op.kind = "cancel" /\ op.ok)
          => SubjectValues(subjects) = op.result[1]


\* C28: a timetable deleted in the Open dialog stays deleted: when the window
\* has closed, no entry of timetables.json has the name of a timetable whose
\* deletion succeeded and that the user has not saved since.
C28_DeletedStaysDeleted ==
    op.kind = "on_closing" =>
        \A name \in deleted :
            \A i \in 1..Len(Stored) :
                HasName(Stored[i]) => Stored[i].name # name


\* The keys of a mapping other than window_geometry.
OtherKeys(mapping) == DOMAIN mapping \ {"window_geometry"}

\* C29: applied settings survive the exit.  When the window is closed after
\* apply_settings saved successfully, load_settings returns the applied value
\* for every key but window_geometry; and on_closing changes no value of
\* settings.json but that of window_geometry.
C29_AppliedSettingsSurvive ==
    op.kind = "on_closing" =>
        LET next_start == load_settings(settings_file, "none").value
        IN  /\ (prev.kind = "apply_settings" /\ prev.ok) =>
                  \A k \in OtherKeys(prev.result[1]) :
                      k \in DOMAIN next_start /\ next_start[k] = prev.result[1][k]
            /\ (pre.settings_file.exists /\ pre.settings_file.parsable) =>
                  \A k \in OtherKeys(pre.settings_file.content[1]) :
                      /\ k \in DOMAIN next_start
                      /\ next_start[k] = pre.settings_file.content[1][k]


\* The sessions a confirmed Add Class dialog can hold, and the names a
\* confirmed New Timetable dialog can hold.
ConfirmedSessions ==
    {ClassSession(subject, form.day, form.time, form.room, form.session_type,
                  form.notes) :
        subject \in {Calculus, subject_from_dict(MinimalSubject)},
        form \in ClassForms}

ConfirmedNames == {strip_entry(text) : text \in TimetableNameEntries} \ {""}

\* C30: a confirmed dialog takes effect.  After add_class confirmed the Add
\* Class dialog with a session, that session is eventually among the
\* sessions of the current timetable; after create confirmed the New
\* Timetable dialog with a name, the timetable of that name eventually is
\* the current timetable.
C30_ConfirmedDialogTakesEffect ==
    /\ \A session \in ConfirmedSessions :
          (op.kind = "add_class" /\ op.ok /\ op.session = Some(session))
          ~> (/\ current_timetable # None
              /\ InSeq(current_timetable[1].sessions, session))
    /\ \A name \in ConfirmedNames :
          (op.kind = "create" /\ op.ok /\ op.name = name)
          ~> (/\ current_timetable # None
              /\ current_timetable[1].name = name)

====
